---------------------------- MODULE Spec2Model ----------------------------
(***************************************************************************)
(* A model of the traffic-shaping core of SimpleXray:                       *)
(*   - the PepperShaper lock-free byte ring (pepper_queue.cpp),             *)
(*   - the PepperShaper pacing engine (pepper_pacing.cpp),                  *)
(*   - the packet pool and the statistics of the TUN->QUIC forwarder        *)
(*     (quiche_tun_forwarder.cpp).                                          *)
(* Each component has its own specification over the shared variables; a   *)
(* specification leaves the variables of the other components unchanged.   *)
(***************************************************************************)
EXTENDS Integers, Sequences, FiniteSets, TLC

(***************************************************************************)
(* Bounds of the model.                                                    *)
(***************************************************************************)
\* largest ring capacity explored (pepper_queue_create accepts 1..64 MiB)
MaxCapacity == 4
\* largest length / max_length argument of one enqueue / dequeue call
MaxLen == 3
\* bytes the producer may have had accepted in one behaviour
MaxTotal == 7
\* calls of one ring that are remembered one by one
MaxLog == 3
\* the same three bounds for the runs with concurrent threads
ConcMaxCapacity == 3
ConcMaxLen == 2
ConcMaxTotal == 4
\* largest packet_pool_size explored (ForwarderConfig's default is 8192)
MaxPoolSize == 4
\* pool_index_ is only ever incremented; calls stop once it is above this
MaxPoolIndex == 12
\* largest packet length the forwarder stamps on a buffer
MaxPacketLen == 2
\* sends counted in a back-to-back run that no can_send ends
MaxBurstCount == 4
\* largest pool of a forwarder that is started, and the largest pool_index_
\* at which it is started
FwdMaxPoolSize == 2
FwdMaxPoolIndex == 2
\* largest config_.batch_size
MaxBatch == 2
\* packets the TUN descriptor delivers in one behaviour
MaxPackets == 1
\* packets the TUN device delivers when no monitoring thread runs
LoopMaxPackets == 2
\* update_metrics calls in one behaviour
MaxMetrics == 3
\* capacity, call length and accepted bytes of a ring followed from its
\* creation to its destruction
LifeMaxCapacity == 2
LifeMaxLen == 1
LifeMaxTotal == 2

VARIABLES
    \* ---- PepperRingBuffer (pepper_queue.h:15-24) ----
    capacity,       \* size_t capacity
    write_pos,      \* std::atomic<uint64_t>
    write_seq,      \* std::atomic<uint32_t>, as <<high 16 bits, low 16 bits>>
    read_pos,       \* std::atomic<uint64_t>
    read_seq,       \* std::atomic<uint32_t>, as <<high 16 bits, low 16 bits>>
    data,           \* char* data: the byte region, cell 0..capacity-1
    heap_overflow,  \* a memcpy of enqueue wrote past data + capacity
    \* ---- history of the ring's callers ----
    enq_total,      \* bytes accepted by the enqueue calls so far
    deq_stream,     \* bytes returned by the dequeue calls so far, in order
    ring_op,        \* the last completed ring call and what it returned
    ring_log,       \* the calls since create, while there are at most MaxLog
    handle,         \* the caller's PepperRingBuffer* and the last call that
                    \* created it, destroyed it or was refused for its arguments
    \* ---- the threads that use the ring concurrently ----
    prod_pc, prod,  \* producer inside pepper_queue_enqueue: position, locals
    cons_pc, cons,  \* consumer inside pepper_queue_dequeue: position, locals
    obs_pc, obs,    \* observer inside pepper_queue_available / _used
    \* ---- QuicheTunForwarder's packet pool (quiche_tun_forwarder.h:175-177) ----
    packet_pool,    \* std::vector<PacketBuffer>: slot 0..size-1 -> [in_use, len]
    pool_index,     \* std::atomic<size_t> pool_index_
    pool_op,        \* the last completed pool call, what it returned, and the
                    \* buffers handed out and not yet given back after it
    \* ---- PepperPacingParams, PepperPacingState (pepper_pacing.h:10-29) ----
    params,             \* [target_rate_bps, max_burst_bytes, loss_aware_backoff,
                        \*  enable_pacing, min_pacing_interval_ns]
    next_send_time_ns,  \* uint64_t
    tokens,             \* uint64_t
    last_update_ns,     \* uint64_t
    loss_rate,          \* float, in millionths
    rtt_ns,             \* uint64_t
    in_backoff,         \* bool
    backoff_until_ns,   \* uint64_t
    now_ns,             \* the clock the callers read their timestamps from
    \* ---- history of the pacing engine's caller ----
    pace_op,        \* the caller's last step: the call and what it returned
    burst,          \* the back-to-back run of sends that started at init
    last_send,      \* the last update_after_send call
    fed,            \* the update_metrics calls since init
    window,         \* an interval of time that has begun, and the bytes the
                    \* caller has sent in it
    wide,           \* the last computation on uint64_t values too large for
                    \* the integers above: its operands and its results
    \* ---- QuicheTunForwarder (quiche_tun_forwarder.h:165-185) ----
    batch_size,             \* config_.batch_size
    running,                \* running_
    stats,                  \* stats_
    last_stats_update_us,   \* last_stats_update_us_
    now_us,                 \* the clock TimeUtils::GetTimestampUs() reads
    fwd_pc,         \* where the forwarding thread is in ForwardingLoop
    fwd,            \* the locals of ForwardingLoop
    stop_pc,        \* where the control thread is in Stop, or that Stop has returned
    mon_pc,         \* where the monitoring thread is in GetStats
    mon_left,       \* the fields GetStats has yet to copy
    snap,           \* the copy GetStats builds and returns
    sent_lens,      \* the lengths of the packets counted in packets_sent
    stats_base,     \* stats_.bytes_sent as the last UpdateStats() that set the
                    \* rates found it
    tun,            \* the TUN device: packets it has delivered, packets it has left
    submitted,      \* the SendViaQuic calls so far: the packet and the outcome
    \* ---- QuicheClient (quiche_client.h:197-205) ----
    quic            \* [connected (connected_), conn (conn_), obj (the quiche_conn
                    \*  conn_ was set to), send_pc, send_ret, bad_use (the thread
                    \*  inside SendViaQuic), disc_pc (the thread inside Disconnect)]

ringVars == <<capacity, write_pos, write_seq, read_pos, read_seq, data,
              heap_overflow, enq_total, deq_stream, ring_op>>

threadVars == <<prod_pc, prod, cons_pc, cons, obs_pc, obs>>

poolVars == <<packet_pool, pool_index, pool_op>>

paceVars == <<params, next_send_time_ns, tokens, last_update_ns, loss_rate, rtt_ns,
              in_backoff, backoff_until_ns, now_ns, pace_op, burst, last_send, fed>>

fwdVars == <<batch_size, running, stats, last_stats_update_us, now_us, fwd_pc, fwd,
             stop_pc, mon_pc, mon_left, snap, sent_lens, stats_base, tun, submitted>>

vars == <<ringVars, ring_log, handle, threadVars, poolVars, paceVars, window, wide, fwdVars,
          quic>>

\* what the specifications of one component leave unchanged
notRing == <<handle, poolVars, paceVars, window, wide, fwdVars, quic>>
notPool == <<ringVars, ring_log, handle, threadVars, paceVars, window, wide, fwdVars, quic>>
notEngine == <<ringVars, ring_log, handle, threadVars, poolVars, wide, fwdVars, quic>>
notPace == <<notEngine, window>>
notFwd  == <<ringVars, ring_log, handle, threadVars, paceVars, window, wide, quic>>
notConc == <<ring_log, handle, poolVars, paceVars, window, wide, fwdVars, quic>>
notQuic == <<ringVars, ring_log, handle, threadVars, poolVars, paceVars, window, wide, fwdVars>>

(***************************************************************************)
(* Helpers.                                                                *)
(***************************************************************************)
Min(a, b) == IF a < b THEN a ELSE b
Max(a, b) == IF a > b THEN a ELSE b

IsPrefix(s, t) == Len(s) <= Len(t) /\ \A i \in 1..Len(s) : s[i] = t[i]

(***************************************************************************)
(* uint32_t sequence counters.  A counter is kept as its two 16-bit halves *)
(* <<hi, lo>> so that every 32-bit value is representable.                 *)
(***************************************************************************)
Half == 2^16

SeqZero == <<0, 0>>

\* (seq + 1) % 0xFFFFFFFF, in uint32_t arithmetic
SeqInc(s) ==
    IF s = <<Half - 1, Half - 1>> THEN SeqZero            \* 0xFFFFFFFF + 1 = 0
    ELSE IF s = <<Half - 1, Half - 2>> THEN SeqZero       \* 0xFFFFFFFF % 0xFFFFFFFF
    ELSE IF s[2] = Half - 1 THEN <<s[1] + 1, 0>>
    ELSE <<s[1], s[2] + 1>>

(***************************************************************************)
(* pepper_queue_enqueue / pepper_queue_dequeue: the pure parts.            *)
(* The positions are below capacity <= 2^26, so none of the uint64_t       *)
(* expressions below wraps modulo 2^64 except read_pos - write_pos with    *)
(* read_pos < write_pos, and then capacity - (read_pos - write_pos) is     *)
(* capacity + (write_pos - read_pos) modulo 2^64, which is what Integers   *)
(* give.                                                                   *)
(***************************************************************************)
\* available space as enqueue computes it (pepper_queue.cpp:72-84)
EnqAvailable(cap, wp, ws, rp, rs) ==
    IF ws = rs
    THEN IF wp >= rp THEN cap - (wp - rp) ELSE rp - wp
    ELSE cap - (rp - wp)

\* (an enqueue that fills the last free cell too)
ToWrite_NoReserve(length, available) == IF length < available THEN length ELSE available

\* size_t to_write = (length < available - 1) ? length : (available - 1)
ToWrite(length, available) ==
    IF length < available - 1 THEN length ELSE available - 1

\* available data as dequeue computes it (pepper_queue.cpp:131-141)
DeqAvailable(cap, rp, rs, wp, ws) ==
    IF rs = ws
    THEN IF rp < wp THEN wp - rp ELSE 0
    ELSE cap - (rp - wp)

\* (a dequeue that forgets to clamp to the available data)
ToRead_NoClamp(max_length, available) == max_length

\* size_t to_read = (max_length < available) ? max_length : available
ToRead(max_length, available) ==
    IF max_length < available THEN max_length ELSE available

\* first_part: the bytes copied before the physical end of the region
FirstPart(pos, n, cap) == IF pos + n <= cap THEN n ELSE cap - pos

\* new_pos = (pos + n) % capacity
NewPos(pos, n, cap) == (pos + n) % cap

\* (a position that wraps without starting a new generation)
NewSeq_Same(seq, pos, n, cap) == seq

\* new_seq: incremented when pos + n reaches or passes capacity
NewSeq(seq, pos, n, cap) == IF pos + n >= cap THEN SeqInc(seq) ELSE seq

\* The two memcpy's of enqueue: src[1..first] to data + pos, then
\* src[first+1..n] to data.  Bytes that fall past the region are not cells
\* of the model; CopyOverflows says that there are some.
CopyIn(d, pos, src, n, cap) ==
    LET first == FirstPart(pos, n, cap)
        second == n - first
    IN  [c \in 0..(cap - 1) |->
            IF c < second THEN src[first + 1 + c]
            ELSE IF c >= pos /\ c < pos + first THEN src[1 + (c - pos)]
            ELSE d[c]]

CopyOverflows(pos, n, cap) == n - FirstPart(pos, n, cap) > cap

\* The two memcpy's of dequeue: the n bytes from data + pos, wrapping once.
CopyOut(d, pos, n, cap) ==
    LET first == FirstPart(pos, n, cap)
        At(k) == IF k < cap THEN d[k] ELSE 0       \* past the region: not a stream byte
    IN  [i \in 1..n |-> IF i <= first THEN At(pos + i - 1) ELSE At(i - first - 1)]

\* pepper_queue_available (pepper_queue.cpp:170-187)
QueueAvailable(cap, wp, ws, rp, rs) ==
    IF ws = rs
    THEN IF wp >= rp THEN cap - (wp - rp) - 1 ELSE rp - wp - 1
    ELSE cap - (rp - wp) - 1

\* pepper_queue_used (pepper_queue.cpp:189-210)
QueueUsed(cap, wp, ws, rp, rs) ==
    IF rs = ws /\ rp = wp THEN 0
    ELSE IF rs = ws
         THEN IF rp < wp THEN wp - rp ELSE 0
         ELSE cap - (rp - wp)

(***************************************************************************)
(* The callers' view.  The ring never looks at the bytes it carries, so    *)
(* the producer's stream is taken to be 1, 2, 3, ...: byte k of the stream *)
(* carries the value k, and a byte that is lost, repeated or out of order  *)
(* shows in deq_stream.                                                    *)
(***************************************************************************)
\* the bytes the producer offers in a call of the given length
Offered(length) == [i \in 1..length |-> enq_total + i]

\* the bytes the enqueue calls have accepted so far
EnqStream == [i \in 1..enq_total |-> i]

\* bytes enqueued and not yet dequeued
Held == enq_total - Len(deq_stream)

\* the log after one more call
Logged(op, arg, ret) ==
    IF ring_log.more \/ Len(ring_log.calls) = MaxLog
    THEN [calls |-> <<>>, more |-> TRUE]
    ELSE [calls |-> Append(ring_log.calls, [op |-> op, arg |-> arg, ret |-> ret]),
          more |-> FALSE]

NoOp == [op |-> "none", arg |-> 0, ret |-> 0, held |-> 0, same_gen |-> TRUE]

\* the handle pepper_queue_create has returned, before any further call
Created == [rb |-> "ring", op |-> "none", arg |-> 0, cond |-> "ok", ret |-> 0]

(***************************************************************************)
(* pepper_queue_create(capacity), capacity in 1..MaxCapacity: the state of *)
(* a fresh ring.  posix_memalign leaves the region indeterminate; cell     *)
(* value 0 stands for "never written" (no stream byte is 0).               *)
(***************************************************************************)
InitRing ==
    /\ capacity \in 1..MaxCapacity
    /\ write_pos = 0
    /\ write_seq = SeqZero
    /\ read_pos = 0
    /\ read_seq = SeqZero
    /\ data = [c \in 0..(capacity - 1) |-> 0]
    /\ heap_overflow = FALSE
    /\ enq_total = 0
    /\ deq_stream = <<>>
    /\ ring_op = NoOp
    /\ ring_log = [calls |-> <<>>, more |-> FALSE]
    /\ handle = Created

(***************************************************************************)
(* pepper_queue_enqueue(rb, data, length), a whole call with no other call *)
(* overlapping it (pepper_queue.cpp:64-116).                               *)
(***************************************************************************)
Enqueue(length) ==
    LET available == EnqAvailable(capacity, write_pos, write_seq, read_pos, read_seq)
        to_write == ToWrite(length, available)
        rec == [op |-> "enqueue", arg |-> length, held |-> Held,
                same_gen |-> (write_seq = read_seq)]
    IN  /\ ~heap_overflow
        /\ enq_total + length <= MaxTotal
        /\ IF length = 0 \/ available <= 1
           THEN /\ ring_op' = rec @@ [ret |-> 0]
                /\ ring_log' = Logged("enqueue", length, 0)
                /\ UNCHANGED <<capacity, write_pos, write_seq, read_pos, read_seq,
                               data, heap_overflow, enq_total, deq_stream>>
           ELSE /\ data' = CopyIn(data, write_pos, Offered(length), to_write, capacity)
                /\ heap_overflow' = CopyOverflows(write_pos, to_write, capacity)
                /\ write_pos' = NewPos(write_pos, to_write, capacity)
                /\ write_seq' = NewSeq(write_seq, write_pos, to_write, capacity)
                /\ enq_total' = enq_total + to_write
                /\ ring_op' = rec @@ [ret |-> to_write]
                /\ ring_log' = Logged("enqueue", length, to_write)
                /\ UNCHANGED <<capacity, read_pos, read_seq, deq_stream>>

(***************************************************************************)
(* pepper_queue_dequeue(rb, data, max_length), a whole call with no other  *)
(* call overlapping it (pepper_queue.cpp:118-168).                         *)
(***************************************************************************)
Dequeue(max_length) ==
    LET available == DeqAvailable(capacity, read_pos, read_seq, write_pos, write_seq)
        to_read == ToRead(max_length, available)
        rec == [op |-> "dequeue", arg |-> max_length, held |-> Held,
                same_gen |-> (write_seq = read_seq)]
    IN  /\ ~heap_overflow
        /\ IF max_length = 0 \/ (read_seq = write_seq /\ read_pos = write_pos)
           THEN /\ ring_op' = rec @@ [ret |-> 0]
                /\ ring_log' = Logged("dequeue", max_length, 0)
                /\ UNCHANGED <<capacity, write_pos, write_seq, read_pos, read_seq,
                               data, heap_overflow, enq_total, deq_stream>>
           ELSE /\ deq_stream' = deq_stream \o CopyOut(data, read_pos, to_read, capacity)
                /\ read_pos' = NewPos(read_pos, to_read, capacity)
                /\ read_seq' = NewSeq(read_seq, read_pos, to_read, capacity)
                /\ ring_op' = rec @@ [ret |-> to_read]
                /\ ring_log' = Logged("dequeue", max_length, to_read)
                /\ UNCHANGED <<capacity, write_pos, write_seq, data, heap_overflow,
                               enq_total>>

(***************************************************************************)
(* The life of a ring: pepper_queue_create, pepper_queue_destroy, and the  *)
(* calls that are refused for their arguments (pepper_queue.cpp:18-65,     *)
(* 118-119).  Before create and after destroy the caller holds a null      *)
(* pointer and no ring exists: capacity 0, an empty region.                *)
(***************************************************************************)
\* the largest capacity pepper_queue_create accepts: 64 * 1024 * 1024
MaxRingBytes == 67108864

\* the capacities a caller asks for
Requested == {0} \cup (1..LifeMaxCapacity) \cup {MaxRingBytes + 1}

\* what the two allocations of pepper_queue_create can do: both succeed,
\* new (std::nothrow) returns null, posix_memalign fails
Allocations == {"ok", "no_struct", "no_region"}

\* the ways enqueue and dequeue are called with arguments they refuse
BadArguments == {"null_rb", "null_data"}

CapacityRejected_ZeroAccepted(c) == c > MaxRingBytes

\* if (capacity <= 0 || capacity > 64 * 1024 * 1024) return nullptr;
CapacityRejected(c) == c <= 0 \/ c > MaxRingBytes

NoRing ==
    /\ capacity = 0
    /\ write_pos = 0
    /\ write_seq = SeqZero
    /\ read_pos = 0
    /\ read_seq = SeqZero
    /\ data = <<>>
    /\ heap_overflow = FALSE
    /\ enq_total = 0
    /\ deq_stream = <<>>
    /\ ring_op = NoOp
    /\ ring_log = [calls |-> <<>>, more |-> FALSE]

InitNoRing ==
    /\ NoRing
    /\ handle = [rb |-> "null", op |-> "none", arg |-> 0, cond |-> "ok", ret |-> 0]

Create(requested, alloc) ==
    /\ handle.rb = "null"
    /\ IF CapacityRejected(requested) \/ alloc /= "ok"
       THEN /\ handle' = [rb |-> "null", op |-> "create", arg |-> requested,
                          cond |-> alloc, ret |-> 0]
            /\ UNCHANGED <<ringVars, ring_log>>
       ELSE /\ handle' = [rb |-> "ring", op |-> "create", arg |-> requested,
                          cond |-> alloc, ret |-> 0]
            /\ capacity' = requested
            /\ data' = [c \in 0..(requested - 1) |-> 0]
            /\ write_pos' = 0
            /\ write_seq' = SeqZero
            /\ read_pos' = 0
            /\ read_seq' = SeqZero
            /\ UNCHANGED <<heap_overflow, enq_total, deq_stream, ring_op, ring_log>>

Destroy ==
    /\ handle' = [rb |-> "null", op |-> "destroy", arg |-> 0, cond |-> "ok", ret |-> 0]
    /\ capacity' = 0
    /\ data' = <<>>
    /\ write_pos' = 0
    /\ write_seq' = SeqZero
    /\ read_pos' = 0
    /\ read_seq' = SeqZero
    /\ heap_overflow' = FALSE
    /\ enq_total' = 0
    /\ deq_stream' = <<>>
    /\ ring_op' = NoOp
    /\ ring_log' = [calls |-> <<>>, more |-> FALSE]

\* if (!rb || !data || length == 0) return 0;  with rb or data null
EnqueueRefused(cond, length) ==
    /\ cond = "null_data" => handle.rb = "ring"
    /\ handle' = [handle EXCEPT !.op = "enqueue", !.arg = length, !.cond = cond,
                                !.ret = 0]
    /\ UNCHANGED <<ringVars, ring_log>>

\* if (!rb || !data || max_length == 0) return 0;  with rb or data null
DequeueRefused(cond, max_length) ==
    /\ cond = "null_data" => handle.rb = "ring"
    /\ handle' = [handle EXCEPT !.op = "dequeue", !.arg = max_length, !.cond = cond,
                                !.ret = 0]
    /\ UNCHANGED <<ringVars, ring_log>>

notLife == <<threadVars, poolVars, paceVars, window, wide, fwdVars, quic>>

NextLife ==
    \/ \E requested \in Requested, alloc \in Allocations :
          Create(requested, alloc) /\ UNCHANGED notLife
    \/ Destroy /\ UNCHANGED notLife
    \/ \E length \in 0..LifeMaxLen :
          /\ handle.rb = "ring" /\ enq_total + length <= LifeMaxTotal
          /\ Enqueue(length) /\ UNCHANGED <<threadVars, notRing>>
    \/ \E max_length \in 0..LifeMaxLen :
          handle.rb = "ring" /\ Dequeue(max_length) /\ UNCHANGED <<threadVars, notRing>>
    \/ \E cond \in BadArguments, length \in 0..LifeMaxLen :
          EnqueueRefused(cond, length) /\ UNCHANGED notLife
    \/ \E cond \in BadArguments, max_length \in 0..LifeMaxLen :
          DequeueRefused(cond, max_length) /\ UNCHANGED notLife

NextRing ==
    \/ \E length \in 0..MaxLen : Enqueue(length) /\ UNCHANGED <<threadVars, notRing>>
    \/ \E max_length \in 0..MaxLen : Dequeue(max_length) /\ UNCHANGED <<threadVars, notRing>>

(***************************************************************************)
(* The ring under concurrency: one producer thread inside enqueue, one     *)
(* consumer thread inside dequeue and one observer thread inside           *)
(* available() or used(), interleaved at each atomic load and store of     *)
(* write_pos, write_seq, read_pos, read_seq.  The loads and stores of one  *)
(* thread take effect in program order (acquire loads, release stores).    *)
(* enq_total counts a call's bytes from the store of write_pos that        *)
(* publishes them, deq_stream from the store of read_pos that releases     *)
(* them.                                                                   *)
(***************************************************************************)
NoLocals == [arg |-> 0, write_pos |-> 0, write_seq |-> SeqZero,
             read_pos |-> 0, read_seq |-> SeqZero, n |-> 0, buf |-> <<>>]

\* held: the bytes the ring holds at the moment the call returns
NoObserver == [kind |-> "none", write_pos |-> 0, write_seq |-> SeqZero,
               read_pos |-> 0, read_seq |-> SeqZero, ret |-> 0, held |-> 0]

InitThreads ==
    /\ prod_pc = "idle" /\ prod = NoLocals
    /\ cons_pc = "idle" /\ cons = NoLocals
    /\ obs_pc = "idle" /\ obs = NoObserver

\* ---- producer: pepper_queue_enqueue (pepper_queue.cpp:64-116) ----
P_Call(length) ==
    /\ prod_pc = "idle" /\ ~heap_overflow
    /\ enq_total + length <= ConcMaxTotal
    /\ prod' = [NoLocals EXCEPT !.arg = length]
    /\ prod_pc' = "load_write_pos"
    /\ UNCHANGED <<ringVars, cons_pc, cons, obs_pc, obs>>

P_LoadWritePos ==
    /\ prod_pc = "load_write_pos"
    /\ prod' = [prod EXCEPT !.write_pos = write_pos]
    /\ prod_pc' = "load_write_seq"
    /\ UNCHANGED <<ringVars, cons_pc, cons, obs_pc, obs>>

P_LoadWriteSeq ==
    /\ prod_pc = "load_write_seq"
    /\ prod' = [prod EXCEPT !.write_seq = write_seq]
    /\ prod_pc' = "load_read_pos"
    /\ UNCHANGED <<ringVars, cons_pc, cons, obs_pc, obs>>

P_LoadReadPos ==
    /\ prod_pc = "load_read_pos"
    /\ prod' = [prod EXCEPT !.read_pos = read_pos]
    /\ prod_pc' = "load_read_seq"
    /\ UNCHANGED <<ringVars, cons_pc, cons, obs_pc, obs>>

P_LoadReadSeq ==
    /\ prod_pc = "load_read_seq"
    /\ prod' = [prod EXCEPT !.read_seq = read_seq]
    /\ prod_pc' = "copy"
    /\ UNCHANGED <<ringVars, cons_pc, cons, obs_pc, obs>>

\* the space computation, the full test and the two memcpy's
P_Copy ==
    LET available == EnqAvailable(capacity, prod.write_pos, prod.write_seq,
                                  prod.read_pos, prod.read_seq)
        to_write == ToWrite(prod.arg, available)
    IN  /\ prod_pc = "copy"
        /\ IF available <= 1
           THEN /\ prod_pc' = "idle"
                /\ prod' = [prod EXCEPT !.n = 0]
                /\ UNCHANGED <<data, heap_overflow>>
           ELSE /\ data' = CopyIn(data, prod.write_pos, Offered(prod.arg), to_write, capacity)
                /\ heap_overflow' = CopyOverflows(prod.write_pos, to_write, capacity)
                /\ prod' = [prod EXCEPT !.n = to_write]
                /\ prod_pc' = "store_write_pos"
        /\ UNCHANGED <<capacity, write_pos, write_seq, read_pos, read_seq,
                       enq_total, deq_stream, ring_op, cons_pc, cons, obs_pc, obs>>

P_StoreWritePos ==
    /\ prod_pc = "store_write_pos"
    /\ write_pos' = NewPos(prod.write_pos, prod.n, capacity)
    /\ enq_total' = enq_total + prod.n
    /\ prod_pc' = IF NewSeq(prod.write_seq, prod.write_pos, prod.n, capacity) /= prod.write_seq
               THEN "store_write_seq" ELSE "idle"
    /\ UNCHANGED <<capacity, write_seq, read_pos, read_seq, data, heap_overflow,
                   deq_stream, ring_op, prod, cons_pc, cons, obs_pc, obs>>

P_StoreWriteSeq ==
    /\ prod_pc = "store_write_seq"
    /\ write_seq' = NewSeq(prod.write_seq, prod.write_pos, prod.n, capacity)
    /\ prod_pc' = "idle"
    /\ UNCHANGED <<capacity, write_pos, read_pos, read_seq, data, heap_overflow,
                   enq_total, deq_stream, ring_op, prod, cons_pc, cons, obs_pc, obs>>

\* ---- consumer: pepper_queue_dequeue (pepper_queue.cpp:118-168) ----
C_Call(max_length) ==
    /\ cons_pc = "idle" /\ ~heap_overflow
    /\ cons' = [NoLocals EXCEPT !.arg = max_length]
    /\ cons_pc' = "load_read_pos"
    /\ UNCHANGED <<ringVars, prod_pc, prod, obs_pc, obs>>

C_LoadReadPos ==
    /\ cons_pc = "load_read_pos"
    /\ cons' = [cons EXCEPT !.read_pos = read_pos]
    /\ cons_pc' = "load_read_seq"
    /\ UNCHANGED <<ringVars, prod_pc, prod, obs_pc, obs>>

C_LoadReadSeq ==
    /\ cons_pc = "load_read_seq"
    /\ cons' = [cons EXCEPT !.read_seq = read_seq]
    /\ cons_pc' = "load_write_pos"
    /\ UNCHANGED <<ringVars, prod_pc, prod, obs_pc, obs>>

C_LoadWritePos ==
    /\ cons_pc = "load_write_pos"
    /\ cons' = [cons EXCEPT !.write_pos = write_pos]
    /\ cons_pc' = "load_write_seq"
    /\ UNCHANGED <<ringVars, prod_pc, prod, obs_pc, obs>>

C_LoadWriteSeq ==
    /\ cons_pc = "load_write_seq"
    /\ cons' = [cons EXCEPT !.write_seq = write_seq]
    /\ cons_pc' = "copy"
    /\ UNCHANGED <<ringVars, prod_pc, prod, obs_pc, obs>>

\* the empty test, the data computation and the two memcpy's
C_Copy ==
    LET available == DeqAvailable(capacity, cons.read_pos, cons.read_seq,
                                  cons.write_pos, cons.write_seq)
        to_read == ToRead(cons.arg, available)
    IN  /\ cons_pc = "copy"
        /\ IF cons.read_seq = cons.write_seq /\ cons.read_pos = cons.write_pos
           THEN /\ cons_pc' = "idle"
                /\ cons' = [cons EXCEPT !.n = 0]
           ELSE /\ cons' = [cons EXCEPT !.n = to_read,
                                  !.buf = CopyOut(data, cons.read_pos, to_read, capacity)]
                /\ cons_pc' = "store_read_pos"
        /\ UNCHANGED <<ringVars, prod_pc, prod, obs_pc, obs>>

C_StoreReadPos ==
    /\ cons_pc = "store_read_pos"
    /\ read_pos' = NewPos(cons.read_pos, cons.n, capacity)
    /\ deq_stream' = deq_stream \o cons.buf
    /\ cons_pc' = IF NewSeq(cons.read_seq, cons.read_pos, cons.n, capacity) /= cons.read_seq
               THEN "store_read_seq" ELSE "idle"
    /\ UNCHANGED <<capacity, write_pos, write_seq, read_seq, data, heap_overflow,
                   enq_total, ring_op, prod_pc, prod, cons, obs_pc, obs>>

C_StoreReadSeq ==
    /\ cons_pc = "store_read_seq"
    /\ read_seq' = NewSeq(cons.read_seq, cons.read_pos, cons.n, capacity)
    /\ cons_pc' = "idle"
    /\ UNCHANGED <<capacity, write_pos, write_seq, read_pos, data, heap_overflow,
                   enq_total, deq_stream, ring_op, prod_pc, prod, cons, obs_pc, obs>>

\* ---- observer: pepper_queue_available / pepper_queue_used ----
\* (pepper_queue.cpp:170-210)
O_Call(kind) ==
    /\ obs_pc \in {"idle", "returned"}
    /\ obs' = [NoObserver EXCEPT !.kind = kind]
    /\ obs_pc' = "load_write_pos"
    /\ UNCHANGED <<ringVars, prod_pc, prod, cons_pc, cons>>

O_LoadWritePos ==
    /\ obs_pc = "load_write_pos"
    /\ obs' = [obs EXCEPT !.write_pos = write_pos]
    /\ obs_pc' = "load_write_seq"
    /\ UNCHANGED <<ringVars, prod_pc, prod, cons_pc, cons>>

O_LoadWriteSeq ==
    /\ obs_pc = "load_write_seq"
    /\ obs' = [obs EXCEPT !.write_seq = write_seq]
    /\ obs_pc' = "load_read_pos"
    /\ UNCHANGED <<ringVars, prod_pc, prod, cons_pc, cons>>

O_LoadReadPos ==
    /\ obs_pc = "load_read_pos"
    /\ obs' = [obs EXCEPT !.read_pos = read_pos]
    /\ obs_pc' = "load_read_seq"
    /\ UNCHANGED <<ringVars, prod_pc, prod, cons_pc, cons>>

O_LoadReadSeq ==
    /\ obs_pc = "load_read_seq"
    /\ obs' = [obs EXCEPT !.read_seq = read_seq]
    /\ obs_pc' = "return"
    /\ UNCHANGED <<ringVars, prod_pc, prod, cons_pc, cons>>

\* the call returns its value
O_Return ==
    /\ obs_pc = "return"
    /\ obs' = [obs EXCEPT
              !.ret = IF obs.kind = "available"
                      THEN QueueAvailable(capacity, obs.write_pos, obs.write_seq,
                                          obs.read_pos, obs.read_seq)
                      ELSE QueueUsed(capacity, obs.write_pos, obs.write_seq,
                                     obs.read_pos, obs.read_seq),
              !.held = Held]
    /\ obs_pc' = "returned"
    /\ UNCHANGED <<ringVars, prod_pc, prod, cons_pc, cons>>

NextConc ==
    \/ \E length \in 1..ConcMaxLen : P_Call(length) /\ UNCHANGED notConc
    \/ P_LoadWritePos /\ UNCHANGED notConc
    \/ P_LoadWriteSeq /\ UNCHANGED notConc
    \/ P_LoadReadPos /\ UNCHANGED notConc
    \/ P_LoadReadSeq /\ UNCHANGED notConc
    \/ P_Copy /\ UNCHANGED notConc
    \/ P_StoreWritePos /\ UNCHANGED notConc
    \/ P_StoreWriteSeq /\ UNCHANGED notConc
    \/ \E max_length \in 1..ConcMaxLen : C_Call(max_length) /\ UNCHANGED notConc
    \/ C_LoadReadPos /\ UNCHANGED notConc
    \/ C_LoadReadSeq /\ UNCHANGED notConc
    \/ C_LoadWritePos /\ UNCHANGED notConc
    \/ C_LoadWriteSeq /\ UNCHANGED notConc
    \/ C_Copy /\ UNCHANGED notConc
    \/ C_StoreReadPos /\ UNCHANGED notConc
    \/ C_StoreReadSeq /\ UNCHANGED notConc
    \/ \E kind \in {"available", "used"} : O_Call(kind) /\ UNCHANGED notConc
    \/ O_LoadWritePos /\ UNCHANGED notConc
    \/ O_LoadWriteSeq /\ UNCHANGED notConc
    \/ O_LoadReadPos /\ UNCHANGED notConc
    \/ O_LoadReadSeq /\ UNCHANGED notConc
    \/ O_Return /\ UNCHANGED notConc

(***************************************************************************)
(* The packet pool of QuicheTunForwarder.                                  *)
(***************************************************************************)
\* AllocatePacket returns nullptr
Null == -1

PoolSize == Cardinality(DOMAIN packet_pool)

FreeSlots == {i \in DOMAIN packet_pool : ~packet_pool[i].in_use}

\* InitializePacketPool (quiche_tun_forwarder.cpp:123-150): every slot free
InitPool ==
    /\ \E size \in 1..MaxPoolSize :
          packet_pool = [i \in 0..(size - 1) |-> [in_use |-> FALSE, len |-> 0]]
    /\ pool_index = 0
    /\ pool_op = [op |-> "none", ret |-> Null, free |-> 0, out |-> 0]

\* a probe that takes the slot it looks at first
AllocScan_NoCheck(pool, pidx, i) == <<pidx % Cardinality(DOMAIN pool), pidx + 1>>

\* The loop of AllocatePacket from iteration i on, pool_index_ being pidx:
\* idx = (pool_index_.fetch_add(1) + i) % size, the first free idx is taken.
\* The result is <<slot or Null, pool_index_ afterwards>>.
RECURSIVE AllocScan(_, _, _)
AllocScan(pool, pidx, i) ==
    IF i >= Cardinality(DOMAIN pool) THEN <<Null, pidx>>
    ELSE LET idx == (pidx + i) % Cardinality(DOMAIN pool)
         IN  IF ~pool[idx].in_use THEN <<idx, pidx + 1>>
             ELSE AllocScan(pool, pidx + 1, i + 1)

\* PacketBuffer* AllocatePacket() (quiche_tun_forwarder.cpp:352-366)
AllocatePacket ==
    LET r == AllocScan(packet_pool, pool_index, 0)
    IN  /\ pool_index <= MaxPoolIndex
        /\ pool_index' = r[2]
        /\ packet_pool' = IF r[1] = Null THEN packet_pool
                          ELSE [packet_pool EXCEPT ![r[1]] = [in_use |-> TRUE, len |-> 0]]
        /\ pool_op' = [op |-> "alloc", ret |-> r[1], free |-> Cardinality(FreeSlots),
                       out |-> IF r[1] = Null THEN pool_op.out ELSE pool_op.out + 1]

\* void FreePacket(PacketBuffer* pkt), pkt a slot of the pool
\* (quiche_tun_forwarder.cpp:368-375)
FreePacket(idx) ==
    /\ packet_pool' = [packet_pool EXCEPT ![idx] = [in_use |-> FALSE, len |-> 0]]
    /\ pool_op' = [op |-> "free", ret |-> idx, free |-> Cardinality(FreeSlots),
                   out |-> IF packet_pool[idx].in_use THEN pool_op.out - 1 ELSE pool_op.out]
    /\ UNCHANGED pool_index

\* The forwarding loop stamps the length of a received packet on a buffer it
\* has checked out: packets[i]->len = msgs[i].msg_len
\* (quiche_tun_forwarder.cpp:269-272)
StampPacket(idx, len) ==
    /\ packet_pool[idx].in_use
    /\ packet_pool' = [packet_pool EXCEPT ![idx].len = len]
    /\ pool_op' = [op |-> "stamp", ret |-> idx, free |-> Cardinality(FreeSlots),
                   out |-> pool_op.out]
    /\ UNCHANGED pool_index

NextPool ==
    \/ AllocatePacket /\ UNCHANGED notPool
    \/ \E idx \in DOMAIN packet_pool : FreePacket(idx) /\ UNCHANGED notPool
    \/ \E idx \in DOMAIN packet_pool, len \in 1..MaxPacketLen :
          StampPacket(idx, len) /\ UNCHANGED notPool


(***************************************************************************)
(* The pacing engine (pepper_pacing.cpp).  Times are nanoseconds, rates    *)
(* bits per second, tokens bytes.  All quantities of the model are below   *)
(* 2^31, so no uint64_t expression of the code wraps.  The float           *)
(* loss_rate is kept in millionths; float rounding below one millionth     *)
(* (and below one nanosecond of rtt) is not modelled.                      *)
(***************************************************************************)
NsPerSec == 10^9

\* one unit of loss_rate, in millionths
LossOne == 10^6

\* #define of the 10% loss threshold: state->loss_rate > 0.1f
LossThreshold == LossOne \div 10

\* the default of the backoff when no rtt is known: 100000000ULL
DefaultRttNs == 10^8

\* <<floor(a * b / d), a * b mod d>> without forming the product a * b,
\* for 0 <= a, 0 <= b, 0 < d < 2^30
\* (h is the pair for b \div 2)
MulDivStep(h, a, b, d) ==
    LET q2 == 2 * h[1] + (2 * h[2]) \div d
        r2 == (2 * h[2]) % d
        t  == r2 + (a % d)
    IN  IF b % 2 = 0 THEN <<q2, r2>>
        ELSE <<q2 + (a \div d) + (t \div d), t % d>>

RECURSIVE MulDivQR(_, _, _)
MulDivQR(a, b, d) ==
    IF b = 0 THEN <<0, 0>>
    ELSE CHOOSE qr \in {MulDivStep(h, a, b, d) : h \in {MulDivQR(a, b \div 2, d)}} : TRUE

MulDivFloor(a, b, d) == MulDivQR(a, b, d)[1]

\* the parameters the callers configure the engine with
Rates        == {0, 8000000}
Bursts       == {1500}
MinIntervals == {0, 1000000}
PacketSizes  == {500, 1500}
ClockReadings == {0, 500000, 1000000, 1500000, 300000000}
\* the samples the network monitor feeds: a loss rate of 0.5, an rtt of 100 ms
\* (or no rtt sample)
FedLoss      == LossOne \div 2
FedRttNs     == 10^8
LossSamples  == {FedLoss}
RttSamples   == {0, FedRttNs}

ParamSet ==
    [target_rate_bps : Rates, max_burst_bytes : Bursts, loss_aware_backoff : BOOLEAN,
     enable_pacing : BOOLEAN, min_pacing_interval_ns : MinIntervals]

\* the parameters a parameter update installs: another burst size, with the
\* rate limit and the gate on or off
NewBursts == {1000}
NewParamSet ==
    [target_rate_bps : Rates, max_burst_bytes : NewBursts, loss_aware_backoff : {TRUE},
     enable_pacing : BOOLEAN, min_pacing_interval_ns : {0}]

\* pepper_pacing_init (pepper_pacing.cpp:18-29), the clock reading now_ns
InitState ==
    /\ now_ns = 0
    /\ next_send_time_ns = now_ns
    /\ tokens = params.max_burst_bytes
    /\ last_update_ns = now_ns
    /\ loss_rate = 0
    /\ rtt_ns = 0
    /\ in_backoff = FALSE
    /\ backoff_until_ns = 0
    /\ pace_op = [op |-> "init", size |-> 0, ret |-> TRUE]
    /\ burst = [phase |-> "check", size |-> 0, count |-> 0]
    /\ last_send = [valid |-> FALSE, size |-> 0, time |-> 0]
    /\ fed = [n |-> 0, uniform |-> TRUE]
    /\ window = [t0 |-> 0, bytes |-> 0]
    /\ wide = [op |-> "none"]

InitPacing == params \in ParamSet /\ InitState

\* (an init that only refreshes the bucket and the send time)
PacingInit_Partial(p, t) ==
    [next_send_time_ns |-> t, tokens |-> p.max_burst_bytes, last_update_ns |-> t,
     loss_rate |-> loss_rate, rtt_ns |-> rtt_ns, in_backoff |-> in_backoff,
     backoff_until_ns |-> backoff_until_ns]

\* the PepperPacingState pepper_pacing_init(state, params) leaves, t being the
\* reading of pepper_pacing_get_time_ns() (pepper_pacing.cpp:18-29)
PacingInit(p, t) ==
    [next_send_time_ns |-> t, tokens |-> p.max_burst_bytes, last_update_ns |-> t,
     loss_rate |-> 0, rtt_ns |-> 0, in_backoff |-> FALSE, backoff_until_ns |-> 0]

\* (a gate that never takes pacing for disabled)
PacingDisabled_Never(p) == FALSE

\* if (!state || !params || !params->enable_pacing) return true
PacingDisabled(p) == ~p.enable_pacing

\* (a can_send that does not look at the backoff)
BackoffGateClosed_Ignored(backoff, until, t) == FALSE

\* if (state->in_backoff && current_time_ns < state->backoff_until_ns)
BackoffGateClosed(backoff, until, t) == backoff /\ t < until

\* (a can_send without the time check)
TimeGateClosed_Open(t, next) == FALSE

\* if (current_time_ns < state->next_send_time_ns)
TimeGateClosed(t, next) == t < next

\* (a refill that earns nothing)
TokensToAdd_None(elapsed_ns, rate) == 0

\* tokens_to_add = (elapsed_ns * target_rate_bps) / (8 * 1000000000ULL)
TokensToAdd(elapsed_ns, rate) == MulDivFloor(elapsed_ns, rate, NsPerSec) \div 8

\* (a bucket with no cap)
Refill_NoCap(tok, elapsed_ns, p) == tok + TokensToAdd(elapsed_ns, p.target_rate_bps)

\* std::min(state->tokens + tokens_to_add, params->max_burst_bytes)
Refill(tok, elapsed_ns, p) ==
    Min(tok + TokensToAdd(elapsed_ns, p.target_rate_bps), p.max_burst_bytes)

\* (an interval that takes the smaller of the two)
IntervalNs_Min(packet_size, p) ==
    IF p.target_rate_bps > 0
    THEN Min(MulDivFloor(NsPerSec, packet_size * 8, p.target_rate_bps),
             p.min_pacing_interval_ns)
    ELSE p.min_pacing_interval_ns

\* interval_ns of update_after_send (pepper_pacing.cpp:83-91)
IntervalNs(packet_size, p) ==
    IF p.target_rate_bps > 0
    THEN Max(MulDivFloor(NsPerSec, packet_size * 8, p.target_rate_bps),
             p.min_pacing_interval_ns)
    ELSE p.min_pacing_interval_ns

\* (a bucket that goes below zero)
Consume_Unfloored(tok, packet_size) == tok - packet_size

\* if (state->tokens >= packet_size) state->tokens -= packet_size;
\* else state->tokens = 0
Consume(tok, packet_size) == IF tok >= packet_size THEN tok - packet_size ELSE 0

\* (a backoff of one rtt whatever the loss rate)
BackoffDurationNs_Flat(rtt, loss) == IF rtt > 0 THEN rtt ELSE DefaultRttNs

\* backoff_duration_ns = (rtt_ns > 0 ? rtt_ns : 100000000ULL) * (1 + loss_rate * 10)
BackoffDurationNs(rtt, loss) ==
    MulDivFloor(IF rtt > 0 THEN rtt ELSE DefaultRttNs, LossOne + 10 * loss, LossOne)

\* alpha * sample + (1 - alpha) * old with alpha = 0.1f
Ema(sample, old) == (sample + 9 * old) \div 10

\* The caller's run of back-to-back sends at the time of init: it is over at
\* the first can_send that returns false, and void once the caller does
\* anything else.
BurstVoid == [phase |-> "void", size |-> 0, count |-> 0]

BurstAfterCanSend(packet_size, ret) ==
    IF burst.phase = "over" THEN burst
    ELSE IF burst.phase = "check" /\ now_ns = 0 /\ burst.size \in {0, packet_size}
         THEN [burst EXCEPT !.phase = IF ret THEN "send" ELSE "over", !.size = packet_size]
         ELSE BurstVoid

BurstAfterSend(packet_size) ==
    IF burst.phase = "over" THEN burst
    ELSE IF burst.phase = "send" /\ now_ns = 0 /\ burst.size = packet_size
                                 /\ burst.count < MaxBurstCount
         THEN [burst EXCEPT !.phase = "check", !.count = @ + 1]
         ELSE BurstVoid

\* bool pepper_pacing_can_send(state, params, packet_size, current_time_ns),
\* current_time_ns the clock's reading (pepper_pacing.cpp:31-67)
CanSend(packet_size) ==
    LET t        == now_ns
        disabled == PacingDisabled(params)
        backoff  == ~disabled /\ BackoffGateClosed(in_backoff, backoff_until_ns, t)
        timegate == ~disabled /\ ~backoff /\ TimeGateClosed(t, next_send_time_ns)
        bucket   == ~disabled /\ ~backoff /\ ~timegate /\ params.target_rate_bps > 0
        refilled == Refill(tokens, t - last_update_ns, params)
        ret      == disabled \/ (~backoff /\ ~timegate /\ (bucket => refilled >= packet_size))
    IN  /\ in_backoff' = IF disabled \/ backoff THEN in_backoff ELSE FALSE
        /\ tokens' = IF bucket THEN refilled ELSE tokens
        /\ last_update_ns' = IF bucket THEN t ELSE last_update_ns
        /\ pace_op' = [op |-> "can_send", size |-> packet_size, ret |-> ret]
        /\ burst' = BurstAfterCanSend(packet_size, ret)
        /\ UNCHANGED <<params, next_send_time_ns, loss_rate, rtt_ns, backoff_until_ns,
                       now_ns, last_send, fed>>

\* void pepper_pacing_update_after_send(state, params, packet_size,
\* current_time_ns) (pepper_pacing.cpp:69-101)
UpdateAfterSend(packet_size) ==
    LET t     == now_ns
        backs == params.loss_aware_backoff /\ loss_rate > LossThreshold
    IN  /\ tokens' = IF params.target_rate_bps > 0
                     THEN Consume(tokens, packet_size)
                     ELSE tokens
        /\ next_send_time_ns' = t + IntervalNs(packet_size, params)
        /\ backoff_until_ns' = IF backs THEN t + BackoffDurationNs(rtt_ns, loss_rate)
                               ELSE backoff_until_ns
        /\ in_backoff' = IF backs THEN TRUE ELSE in_backoff
        /\ pace_op' = [op |-> "update_after_send", size |-> packet_size, ret |-> TRUE]
        /\ burst' = BurstAfterSend(packet_size)
        /\ last_send' = [valid |-> TRUE, size |-> packet_size, time |-> t]
        /\ UNCHANGED <<params, last_update_ns, loss_rate, rtt_ns, now_ns, fed>>

\* void pepper_pacing_update_metrics(state, loss_rate, rtt_ns)
\* (pepper_pacing.cpp:103-113)
UpdateMetrics(loss_sample, rtt_sample) ==
    /\ fed.n < MaxMetrics
    /\ loss_rate' = Ema(loss_sample, loss_rate)
    /\ rtt_ns' = IF rtt_sample > 0 THEN Ema(rtt_sample, rtt_ns) ELSE rtt_ns
    /\ pace_op' = [op |-> "update_metrics", size |-> 0, ret |-> TRUE]
    /\ burst' = IF burst.phase = "over" THEN burst ELSE BurstVoid
    /\ fed' = [n |-> fed.n + 1,
               uniform |-> fed.uniform /\ loss_sample = FedLoss /\ rtt_sample = FedRttNs]
    /\ UNCHANGED <<params, next_send_time_ns, tokens, last_update_ns, in_backoff,
                   backoff_until_ns, now_ns, last_send>>

\* nativeUpdateParams (pepper_jni.cpp:207-239): the parameters are replaced
\* and pepper_pacing_init runs on the state with the new ones
UpdateParams(new_params) ==
    LET fresh == PacingInit(new_params, now_ns)
    IN  /\ params' = new_params
        /\ next_send_time_ns' = fresh.next_send_time_ns
        /\ tokens' = fresh.tokens
        /\ last_update_ns' = fresh.last_update_ns
        /\ loss_rate' = fresh.loss_rate
        /\ rtt_ns' = fresh.rtt_ns
        /\ in_backoff' = fresh.in_backoff
        /\ backoff_until_ns' = fresh.backoff_until_ns
        /\ pace_op' = [op |-> "init", size |-> 0, ret |-> TRUE]
        /\ burst' = IF now_ns = 0 THEN [phase |-> "check", size |-> 0, count |-> 0]
                    ELSE BurstVoid
        /\ last_send' = [valid |-> FALSE, size |-> 0, time |-> 0]
        /\ fed' = [n |-> 0, uniform |-> TRUE]
        /\ UNCHANGED now_ns

\* pepper_pacing_get_time_ns (pepper_pacing.cpp:115-119): the clock has
\* advanced to a later reading t
Tick(t) ==
    /\ t > now_ns
    /\ now_ns' = t
    /\ pace_op' = [op |-> "tick", size |-> 0, ret |-> TRUE]
    /\ UNCHANGED <<params, next_send_time_ns, tokens, last_update_ns, loss_rate, rtt_ns,
                   in_backoff, backoff_until_ns, burst, last_send, fed>>

NextPacing ==
    \/ \E packet_size \in PacketSizes : CanSend(packet_size) /\ UNCHANGED notPace
    \/ \E packet_size \in PacketSizes : UpdateAfterSend(packet_size) /\ UNCHANGED notPace
    \/ \E l \in LossSamples, r \in RttSamples : UpdateMetrics(l, r) /\ UNCHANGED notPace
    \/ \E t \in ClockReadings : Tick(t) /\ UNCHANGED notPace
    \/ \E new_params \in NewParamSet : UpdateParams(new_params) /\ UNCHANGED notPace

(***************************************************************************)
(* The engine under fixed parameters, with a caller that sends a packet    *)
(* only directly after can_send has admitted it, at the same reading of    *)
(* the clock.  window follows the bytes sent from some reading t0 of the   *)
(* clock on: from init on, or from a later reading on.                     *)
(***************************************************************************)
RateParamSet ==
    [target_rate_bps : Rates \ {0}, max_burst_bytes : Bursts \cup NewBursts,
     loss_aware_backoff : BOOLEAN, enable_pacing : {TRUE},
     min_pacing_interval_ns : MinIntervals]

Admitted(packet_size) ==
    pace_op.op = "can_send" /\ pace_op.ret /\ pace_op.size = packet_size

NextRate ==
    \/ \E packet_size \in PacketSizes :
          CanSend(packet_size) /\ UNCHANGED <<window, notEngine>>
    \/ \E packet_size \in PacketSizes :
          /\ Admitted(packet_size)
          /\ UpdateAfterSend(packet_size)
          /\ window' = [window EXCEPT !.bytes = @ + packet_size]
          /\ UNCHANGED notEngine
    \/ \E l \in LossSamples, r \in RttSamples :
          UpdateMetrics(l, r) /\ UNCHANGED <<window, notEngine>>
    \/ \E t \in ClockReadings :
          /\ Tick(t)
          /\ window' \in {window, [t0 |-> t, bytes |-> 0]}
          /\ UNCHANGED notEngine

(***************************************************************************)
(* The engine polled by a caller that waits for admission: it reads the    *)
(* clock again, a step later, and calls can_send; when admitted it sends   *)
(* at once.  The caller never stops polling, so the clock has no bound     *)
(* here.  The engine only compares and subtracts timestamps                *)
(* (pepper_pacing.cpp:38, 44, 51, 87), so the origin of the clock is of no *)
(* consequence, and the timestamps are kept counted from last_update_ns:   *)
(* after each call last_update_ns is 0, now_ns is the time since then, and *)
(* a next_send_time_ns or backoff_until_ns that lies before last_update_ns *)
(* is kept as 0 (it is in the past for every later call).                  *)
(***************************************************************************)
\* A fast link and short packets keep the number of polls per packet small:
\* a token takes 10.67 ns at the first rate and 8 ns at the second, and the
\* interval after a packet of 2 bytes is 21 ns and 16 ns.
PollRates == {750000000, 1000000000}
PollBursts == {2, 3}
PollSizes == {1, 2, 3}
\* the nanoseconds between two polls: less than a token takes at the first
\* rate, and the intervals after which a caller that sleeps until
\* next_send_time_ns wakes up
PollSteps == {10, 21, 32}

PollParamSet ==
    [target_rate_bps : PollRates, max_burst_bytes : PollBursts,
     loss_aware_backoff : {FALSE}, enable_pacing : {TRUE},
     min_pacing_interval_ns : {0}]

\* the timestamp t counted from origin
Since(origin, t) == IF t > origin THEN t - origin ELSE 0

\* the clock advances by d and the caller calls can_send(packet_size, now)
Poll(d, packet_size) ==
    LET t        == now_ns + d
        disabled == PacingDisabled(params)
        backoff  == ~disabled /\ BackoffGateClosed(in_backoff, backoff_until_ns, t)
        timegate == ~disabled /\ ~backoff /\ TimeGateClosed(t, next_send_time_ns)
        bucket   == ~disabled /\ ~backoff /\ ~timegate /\ params.target_rate_bps > 0
        refilled == Refill(tokens, t - last_update_ns, params)
        ret      == disabled \/ (~backoff /\ ~timegate /\ (bucket => refilled >= packet_size))
        origin   == IF bucket THEN t ELSE last_update_ns
    IN  /\ in_backoff' = IF disabled \/ backoff THEN in_backoff ELSE FALSE
        /\ tokens' = IF bucket THEN refilled ELSE tokens
        /\ last_update_ns' = 0
        /\ now_ns' = Since(origin, t)
        /\ next_send_time_ns' = Since(origin, next_send_time_ns)
        /\ backoff_until_ns' = Since(origin, backoff_until_ns)
        /\ pace_op' = [op |-> "can_send", size |-> packet_size, ret |-> ret]
        /\ burst' = IF burst.phase = "over" THEN burst ELSE BurstVoid
        /\ last_send' = [last_send EXCEPT !.time = Since(origin, @)]
        /\ UNCHANGED <<params, loss_rate, rtt_ns, fed>>

Polls ==
    \E d \in PollSteps, packet_size \in PollSizes :
        packet_size <= params.max_burst_bytes /\ Poll(d, packet_size)

NextPoll ==
    \/ Polls /\ UNCHANGED <<window, notEngine>>
    \/ \E packet_size \in PollSizes :
          /\ Admitted(packet_size)
          /\ UpdateAfterSend(packet_size)
          /\ UNCHANGED <<window, notEngine>>

(***************************************************************************)
(* The arithmetic of the engine at its full width.  Every operand is a     *)
(* uint64_t (pepper_pacing.h:11-27), and the products                      *)
(* elapsed_ns * target_rate_bps (pepper_pacing.cpp:52) and                 *)
(* packet_size * 8 * 1000000000ULL (line 85) are reduced modulo 2^64.  A   *)
(* uint64_t is kept here as its 8 bytes, least significant first, and the  *)
(* product of two of them also as the 16 bytes of its exact value.         *)
(***************************************************************************)
Byte == 2^8

\* the k bytes of the integer n < 2^31
Bytes(n, k) == [i \in 0..(k - 1) |-> IF i < 4 THEN (n \div Byte^i) % Byte ELSE 0]

\* byte i of x, 0 past its length
ByteAt(x, i) == IF i \in DOMAIN x THEN x[i] ELSE 0

\* the sum of the products of the bytes of a and b that weigh Byte^j
RECURSIVE Column(_, _, _, _)
Column(a, b, j, i) ==
    IF i > j THEN 0 ELSE ByteAt(a, i) * ByteAt(b, j - i) + Column(a, b, j, i + 1)

\* a * b modulo Byte^k
Times(a, b, k) ==
    LET t[j \in 0..(k - 1)] ==
            Column(a, b, j, 0) + (IF j = 0 THEN 0 ELSE t[j - 1] \div Byte)
    IN  [j \in 0..(k - 1) |-> t[j] % Byte]

\* floor(x / d) for an integer 0 < d < 2^23
Over(x, d) ==
    LET k == Cardinality(DOMAIN x)
        r[j \in 0..(k - 1)] ==
            ((IF j = k - 1 THEN 0 ELSE r[j + 1]) * Byte + x[j]) % d
    IN  [j \in 0..(k - 1) |->
            ((IF j = k - 1 THEN 0 ELSE r[j + 1]) * Byte + x[j]) \div d]

\* x is below 2^31, and then its value
Small(x) == x[3] < 128 /\ \A i \in DOMAIN x : i > 3 => x[i] = 0
Value(x) == x[0] + Byte * x[1] + Byte^2 * x[2] + Byte^3 * x[3]

\* x / (8 * 1000000000ULL): 8 * 10^9 = 1953125 * 4096
OverBitsPerByteNs(x) == Over(Over(x, 1953125), 4096)

\* the operands one computation is applied to: milliseconds since
\* last_update_ns, Mbit/s, bucket sizes, MiB of a packet
WideMs     == {0, 1, 10, 1000, 1844, 1845, 1850, 2000, 3000, 2305843, 2305844}
WideMbps   == {8, 100, 1000, 10000}
WideBursts == {1500, 12500000}
WideMiB    == {1, 2048, 2200}

Million == Bytes(1000000, 8)

\* lines 51-57 of pepper_pacing_can_send: the refill of a bucket holding tok
\* tokens, ms milliseconds after last_update_ns, at a rate of mbps Mbit/s
WideRefill(ms, mbps, tok, max_burst_bytes) ==
    LET elapsed_ns      == Times(Bytes(ms, 8), Million, 8)
        target_rate_bps == Times(Bytes(mbps, 8), Million, 8)
        tokens_to_add   == OverBitsPerByteNs(Times(elapsed_ns, target_rate_bps, 8))
        refilled == IF ~Small(tokens_to_add) \/ Value(tokens_to_add) >= max_burst_bytes - tok
                    THEN max_burst_bytes
                    ELSE tok + Value(tokens_to_add)
    IN  wide.op = "none" /\
        wide' = [op |-> "refill", elapsed_ns |-> elapsed_ns,
                 target_rate_bps |-> target_rate_bps, tokens_before |-> tok,
                 max_burst_bytes |-> max_burst_bytes,
                 tokens_to_add |-> tokens_to_add, tokens |-> refilled]

\* line 85 of pepper_pacing_update_after_send: the interval after a packet
\* of mib MiB at a rate of mbps Mbit/s
WideInterval(mib, mbps) ==
    LET packet_size == Times(Bytes(mib, 8), Bytes(1048576, 8), 8)
        bits_ns     == Times(Times(packet_size, Bytes(8, 8), 8), Bytes(NsPerSec, 8), 8)
    IN  wide.op = "none" /\
        wide' = [op |-> "interval", packet_size |-> packet_size, mbps |-> mbps,
                 bits_ns |-> bits_ns,
                 interval_ns |-> Over(Over(bits_ns, 1000000), mbps)]

notWide == <<ringVars, ring_log, handle, threadVars, poolVars, paceVars, window, fwdVars, quic>>

NextWide ==
    \/ \E ms \in WideMs, mbps \in WideMbps, b \in WideBursts :
          \E tok \in {0, b} : WideRefill(ms, mbps, tok, b) /\ UNCHANGED notWide
    \/ \E mib \in WideMiB, mbps \in WideMbps :
          WideInterval(mib, mbps) /\ UNCHANGED notWide

(***************************************************************************)
(* The TUN->QUIC forwarder (quiche_tun_forwarder.cpp): the control thread  *)
(* that calls Start() and Stop(), the forwarding thread inside             *)
(* ForwardingLoop() and a monitoring thread inside GetStats().  The        *)
(* forwarding thread is the only writer of stats_, and GetStats() copies   *)
(* stats_ with no synchronisation: the copy is modelled one field at a     *)
(* time, in any order, interleaved with the steps of the loop.  The rates  *)
(* (double, Mbit/s) are kept in bits per second, rounded down.  The        *)
(* timestamp_us of a packet buffer and loop_count are not modelled.        *)
(***************************************************************************)
\* the readings of TimeUtils::GetTimestampUs()
ClockUs == {1000000, 1100000}

\* if (now - last_stats_time >= 100000)
StatsPeriodUs == 10^5

\* the fields of ForwarderStats the loop writes
RacingFields == {"packets_received", "packets_sent", "packets_dropped", "bytes_sent",
                 "tx_rate_bps"}

\* struct ForwarderStats, as constructed (quiche_tun_forwarder.h:69-78)
ZeroStats ==
    [packets_received |-> 0, packets_sent |-> 0, packets_dropped |-> 0,
     bytes_received |-> 0, bytes_sent |-> 0, rx_rate_bps |-> 0, tx_rate_bps |-> 0,
     avg_latency_us |-> 0]

\* the locals of ForwardingLoop (quiche_tun_forwarder.cpp:237-261)
NoFwdLocals == [packets |-> <<>>, batch |-> <<>>, first |-> 0, i |-> 0, received |-> "none",
                last_stats_time |-> 0, late |-> 0]

\* the receive calls the loop has made since running_ was cleared, after a
\* further one
LateReceives == IF running THEN fwd.late ELSE fwd.late + 1

\* the object after the constructor; the forwarder has not been started
InitForwarder ==
    /\ batch_size \in 1..MaxBatch
    /\ running = FALSE
    /\ fwd_pc = "none"
    /\ fwd = NoFwdLocals
    /\ stats = ZeroStats
    /\ last_stats_update_us = 0
    /\ now_us \in {t \in ClockUs : \A u \in ClockUs : t <= u}
    /\ stop_pc = "idle"
    /\ mon_pc = "idle"
    /\ mon_left = {}
    /\ snap = ZeroStats
    /\ sent_lens = <<>>
    /\ stats_base = 0
    /\ tun \in {[delivered |-> 0, left |-> n] : n \in 0..Max(MaxPackets, LoopMaxPackets)}
    /\ submitted = <<>>

\* the sequences of packet lengths one recvmmsg can return
RECURSIVE Batches(_)
Batches(n) ==
    IF n = 0 THEN {<<>>}
    ELSE {Append(b, len) : b \in Batches(n - 1), len \in 1..MaxPacketLen}

\* The pre-allocation loop of ForwardingLoop from iteration Len(got) on
\* (quiche_tun_forwarder.cpp:246-258): AllocatePacket() per iteration, return
\* at the first nullptr.
RECURSIVE Prealloc(_, _, _, _, _)
Prealloc(pool, pidx, got, n, op) ==
    IF Len(got) = n THEN [pool |-> pool, pidx |-> pidx, packets |-> got, ok |-> TRUE, op |-> op]
    ELSE LET r    == AllocScan(pool, pidx, 0)
             free == Cardinality({k \in DOMAIN pool : ~pool[k].in_use})
             rec  == [op |-> "alloc", ret |-> r[1], free |-> free,
                      out |-> IF r[1] = Null THEN op.out ELSE op.out + 1]
         IN  IF r[1] = Null
             THEN [pool |-> pool, pidx |-> r[2], packets |-> got, ok |-> FALSE, op |-> rec]
             ELSE Prealloc([pool EXCEPT ![r[1]] = [in_use |-> TRUE, len |-> 0]], r[2],
                           Append(got, r[1]), n, rec)

\* int Start() (quiche_tun_forwarder.cpp:177-204); a Start() that finds
\* running_ set returns -1 and changes nothing
Start ==
    /\ ~running
    /\ stop_pc \in {"idle", "returned"}
    /\ pool_index <= FwdMaxPoolIndex
    /\ running' = TRUE
    /\ fwd_pc' = "prealloc"
    /\ fwd' = NoFwdLocals
    /\ stop_pc' = "idle"
    /\ UNCHANGED <<batch_size, tun, submitted, stats, last_stats_update_us, now_us, mon_pc,
                   mon_left, snap, sent_lens, stats_base, poolVars>>

\* void Stop() when running_ is clear: it returns at once
\* (quiche_tun_forwarder.cpp:207-209)
StopNotRunning ==
    /\ ~running
    /\ stop_pc \in {"idle", "returned"}
    /\ stop_pc' = "returned"
    /\ UNCHANGED <<batch_size, tun, submitted, running, fwd_pc, fwd, stats,
                   last_stats_update_us, now_us, mon_pc, mon_left, snap, sent_lens, stats_base, poolVars>>

\* void Stop() up to the join (quiche_tun_forwarder.cpp:206-213)
StopStore ==
    /\ running
    /\ stop_pc \in {"idle", "returned"}
    /\ running' = FALSE
    /\ stop_pc' = "join"
    /\ UNCHANGED <<batch_size, tun, submitted, fwd_pc, fwd, stats, last_stats_update_us, now_us, mon_pc,
                   mon_left, snap, sent_lens, stats_base, poolVars>>

\* a detached thread: nothing to wait for
JoinReturns_Detached == TRUE

\* forward_thread_->join() returns when the thread function has returned
\* (quiche_tun_forwarder.cpp:215-217)
JoinReturns == fwd_pc = "done"

\* the join returns and so does Stop() (quiche_tun_forwarder.cpp:215-220)
StopJoin ==
    /\ stop_pc = "join"
    /\ JoinReturns
    /\ stop_pc' = "returned"
    /\ UNCHANGED <<batch_size, tun, submitted, running, fwd_pc, fwd, stats, last_stats_update_us, now_us,
                   mon_pc, mon_left, snap, sent_lens, stats_base, poolVars>>

\* ForwardingLoop up to the while (quiche_tun_forwarder.cpp:222-261)
F_Prealloc ==
    /\ fwd_pc = "prealloc"
    /\ LET r == Prealloc(packet_pool, pool_index, <<>>, batch_size, pool_op)
       IN  /\ packet_pool' = r.pool
           /\ pool_index' = r.pidx
           /\ pool_op' = r.op
           /\ fwd' = [fwd EXCEPT !.packets = r.packets, !.last_stats_time = now_us]
           /\ fwd_pc' = IF r.ok THEN "check" ELSE "done"
    /\ UNCHANGED <<batch_size, tun, submitted, running, stats, last_stats_update_us, now_us, stop_pc,
                   mon_pc, mon_left, snap, sent_lens, stats_base>>

\* (a loop that never looks at the flag)
F_CheckRunning_Deaf ==
    /\ fwd_pc = "check"
    /\ fwd_pc' = "recv"
    /\ UNCHANGED <<batch_size, tun, submitted, running, fwd, stats, last_stats_update_us, now_us, stop_pc,
                   mon_pc, mon_left, snap, sent_lens, stats_base, poolVars>>

\* while (running_.load())
F_CheckRunning ==
    /\ fwd_pc = "check"
    /\ fwd_pc' = IF running THEN "recv" ELSE "free"
    /\ UNCHANGED <<batch_size, tun, submitted, running, fwd, stats, last_stats_update_us, now_us, stop_pc,
                   mon_pc, mon_left, snap, sent_lens, stats_base, poolVars>>

\* ReceiveTunPacketsBatch returns lens, Len(lens) > 0 packets
\* (quiche_tun_forwarder.cpp:265-267, 309-324)
F_ReceiveBatch(lens) ==
    /\ fwd_pc = "recv"
    /\ Len(lens) \in 1..batch_size
    /\ Len(lens) <= tun.left
    /\ tun' = [delivered |-> tun.delivered + Len(lens), left |-> tun.left - Len(lens)]
    /\ fwd' = [fwd EXCEPT !.batch = lens, !.first = tun.delivered + 1, !.i = 1,
                          !.received = "packets", !.late = LateReceives]
    /\ fwd_pc' = "stamp"
    /\ UNCHANGED <<batch_size, submitted, running, stats, last_stats_update_us, now_us, stop_pc,
                   mon_pc, mon_left, snap, sent_lens, stats_base, poolVars>>

\* ReceiveTunPacketsBatch returns 0, or -1 with EAGAIN / EWOULDBLOCK
F_ReceiveNothing ==
    /\ fwd_pc = "recv"
    /\ fwd' = [fwd EXCEPT !.batch = <<>>, !.i = 0, !.received = "nothing", !.late = LateReceives]
    /\ fwd_pc' = "stats"
    /\ UNCHANGED <<batch_size, tun, submitted, running, stats, last_stats_update_us, now_us, stop_pc,
                   mon_pc, mon_left, snap, sent_lens, stats_base, poolVars>>

\* a hard receive error treated like an empty read
F_ReceiveError_Continue ==
    /\ fwd_pc = "recv"
    /\ fwd' = [fwd EXCEPT !.batch = <<>>, !.i = 0, !.received = "error", !.late = LateReceives]
    /\ fwd_pc' = "stats"
    /\ UNCHANGED <<batch_size, tun, submitted, running, stats, last_stats_update_us, now_us,
                   stop_pc, mon_pc, mon_left, snap, sent_lens, stats_base, poolVars>>

\* ReceiveTunPacketsBatch returns -1 with another errno: break; errno is still
\* the one recvmmsg set when the loop tests it, the logging call in between
\* preserving it
\* (quiche_tun_forwarder.cpp:279-282)
F_ReceiveError ==
    /\ fwd_pc = "recv"
    /\ fwd' = [fwd EXCEPT !.batch = <<>>, !.i = 0, !.received = "error", !.late = LateReceives]
    /\ fwd_pc' = "free"
    /\ UNCHANGED <<batch_size, tun, submitted, running, stats, last_stats_update_us, now_us, stop_pc,
                   mon_pc, mon_left, snap, sent_lens, stats_base, poolVars>>

\* packets[i]->len = msgs[i].msg_len for i < received
\* (quiche_tun_forwarder.cpp:269-272)
F_Stamp ==
    /\ fwd_pc = "stamp"
    /\ packet_pool' =
          [k \in DOMAIN packet_pool |->
              IF \E j \in 1..Len(fwd.batch) : fwd.packets[j] = k
              THEN [packet_pool[k] EXCEPT
                       !.len = fwd.batch[CHOOSE j \in 1..Len(fwd.batch) : fwd.packets[j] = k]]
              ELSE packet_pool[k]]
    /\ pool_op' = [op |-> "stamp", ret |-> fwd.packets[Len(fwd.batch)],
                   free |-> Cardinality(FreeSlots), out |-> pool_op.out]
    /\ fwd_pc' = "send"
    /\ UNCHANGED <<batch_size, tun, submitted, running, fwd, stats, last_stats_update_us, now_us, stop_pc,
                   mon_pc, mon_left, snap, sent_lens, stats_base, pool_index>>

\* the batch walked from its last message to its first
PacketAt_Reversed(i) == fwd.first + (Len(fwd.batch) - i)

\* the packet in msgs[i - 1], numbered in the order the TUN device delivered
\* the packets (quiche_tun_forwarder.cpp:328-329)
PacketAt(i) == fwd.first + (i - 1)

\* where ProcessPacketBatch goes after packet i
AfterPacket == IF fwd.i = Len(fwd.batch) THEN "count" ELSE "send"

\* a failed send that gives up the batch and the loop
F_SendFailed_Abort ==
    /\ fwd_pc = "send"
    /\ submitted' = Append(submitted, [packet |-> PacketAt(fwd.i), ok |-> FALSE])
    /\ stats' = [stats EXCEPT !.packets_dropped = @ + 1]
    /\ fwd' = [fwd EXCEPT !.i = @ + 1]
    /\ fwd_pc' = "free"
    /\ UNCHANGED <<batch_size, tun, running, last_stats_update_us, now_us, stop_pc, mon_pc,
                   mon_left, snap, sent_lens, stats_base, poolVars>>

\* (a failed send that is not counted)
F_SendFailed_Uncounted ==
    /\ fwd_pc = "send"
    /\ submitted' = Append(submitted, [packet |-> PacketAt(fwd.i), ok |-> FALSE])
    /\ fwd' = [fwd EXCEPT !.i = @ + 1]
    /\ fwd_pc' = AfterPacket
    /\ UNCHANGED <<batch_size, tun, running, stats, last_stats_update_us, now_us, stop_pc,
                   mon_pc, mon_left, snap, sent_lens, stats_base, poolVars>>

\* ProcessPacketBatch, packet i: SendViaQuic(data, len) < 0, packets_dropped++
\* (quiche_tun_forwarder.cpp:332-333)
F_SendFailed ==
    /\ fwd_pc = "send"
    /\ submitted' = Append(submitted, [packet |-> PacketAt(fwd.i), ok |-> FALSE])
    /\ stats' = [stats EXCEPT !.packets_dropped = @ + 1]
    /\ fwd' = [fwd EXCEPT !.i = @ + 1]
    /\ fwd_pc' = AfterPacket
    /\ UNCHANGED <<batch_size, tun, running, last_stats_update_us, now_us, stop_pc, mon_pc,
                   mon_left, snap, sent_lens, stats_base, poolVars>>

\* ProcessPacketBatch, packet i: SendViaQuic succeeded, packets_sent++
\* (quiche_tun_forwarder.cpp:332-335)
F_SendOk ==
    /\ fwd_pc = "send"
    /\ submitted' = Append(submitted, [packet |-> PacketAt(fwd.i), ok |-> TRUE])
    /\ stats' = [stats EXCEPT !.packets_sent = @ + 1]
    /\ sent_lens' = Append(sent_lens, fwd.batch[fwd.i])
    /\ fwd_pc' = "bytes"
    /\ UNCHANGED <<batch_size, tun, running, fwd, last_stats_update_us, now_us, stop_pc, mon_pc,
                   mon_left, snap, stats_base, poolVars>>

\* stats_.bytes_sent += len (quiche_tun_forwarder.cpp:336)
F_AddBytes ==
    /\ fwd_pc = "bytes"
    /\ stats' = [stats EXCEPT !.bytes_sent = @ + fwd.batch[fwd.i]]
    /\ fwd' = [fwd EXCEPT !.i = @ + 1]
    /\ fwd_pc' = AfterPacket
    /\ UNCHANGED <<batch_size, tun, submitted, running, last_stats_update_us, now_us, stop_pc, mon_pc,
                   mon_left, snap, sent_lens, stats_base, poolVars>>

\* stats_.packets_received += received (quiche_tun_forwarder.cpp:278)
F_CountReceived ==
    /\ fwd_pc = "count"
    /\ stats' = [stats EXCEPT !.packets_received = @ + Len(fwd.batch)]
    /\ fwd_pc' = "stats"
    /\ UNCHANGED <<batch_size, tun, submitted, running, fwd, last_stats_update_us, now_us, stop_pc, mon_pc,
                   mon_left, snap, sent_lens, stats_base, poolVars>>

\* bytes * 8.0 / elapsed_us, in bits per second
RateBps(bytes, elapsed_us) == (bytes * 8 * 10^6) \div elapsed_us

\* stats_ after UpdateStats() at clock reading now (quiche_tun_forwarder.cpp:396-409)
UpdatedStats(now) ==
    LET elapsed_us == now - last_stats_update_us
    IN  IF elapsed_us = 0 THEN stats
        ELSE [stats EXCEPT !.rx_rate_bps = RateBps(stats.bytes_received, elapsed_us),
                           !.tx_rate_bps = RateBps(stats.bytes_sent, elapsed_us)]

\* the end of an iteration: UpdateStats() every 100 ms
\* (quiche_tun_forwarder.cpp:284-297)
F_Stats ==
    /\ fwd_pc = "stats"
    /\ LET due == now_us - fwd.last_stats_time >= StatsPeriodUs
       IN  /\ stats' = IF due THEN UpdatedStats(now_us) ELSE stats
           /\ last_stats_update_us' = IF due THEN now_us ELSE last_stats_update_us
           /\ fwd' = IF due THEN [fwd EXCEPT !.last_stats_time = now_us] ELSE fwd
           /\ stats_base' = IF due /\ now_us /= last_stats_update_us THEN stats.bytes_sent
                             ELSE stats_base
    /\ fwd_pc' = "check"
    /\ UNCHANGED <<batch_size, tun, submitted, running, now_us, stop_pc, mon_pc, mon_left, snap, sent_lens,
                   poolVars>>

\* FreePacket(packets[i]) for every i, and the thread function returns
\* (quiche_tun_forwarder.cpp:299-307)
F_Free ==
    /\ fwd_pc = "free"
    /\ packet_pool' =
          [k \in DOMAIN packet_pool |->
              IF \E j \in 1..Len(fwd.packets) : fwd.packets[j] = k
              THEN [in_use |-> FALSE, len |-> 0]
              ELSE packet_pool[k]]
    /\ pool_op' = [op |-> "free", ret |-> fwd.packets[Len(fwd.packets)],
                   free |-> Cardinality(FreeSlots),
                   out |-> pool_op.out - Len(fwd.packets)]
    /\ fwd_pc' = "done"
    /\ UNCHANGED <<batch_size, tun, submitted, running, fwd, stats, last_stats_update_us, now_us, stop_pc,
                   mon_pc, mon_left, snap, sent_lens, stats_base, pool_index>>

\* the clock has advanced to a later reading t
FwdTick(t) ==
    /\ t > now_us
    /\ now_us' = t
    /\ UNCHANGED <<batch_size, tun, submitted, running, fwd_pc, fwd, stats, last_stats_update_us, stop_pc,
                   mon_pc, mon_left, snap, sent_lens, stats_base, poolVars>>

\* ForwarderStats GetStats() const { return stats_; }
\* (quiche_tun_forwarder.cpp:411-413): the call starts; the fields the loop
\* never writes are copied here
M_Call ==
    /\ mon_pc \in {"idle", "returned"}
    /\ mon_pc' = "copying"
    /\ mon_left' = RacingFields
    /\ snap' = ZeroStats
    /\ UNCHANGED <<batch_size, tun, submitted, running, fwd_pc, fwd, stats, last_stats_update_us, now_us,
                   stop_pc, sent_lens, stats_base, poolVars>>

\* one field of stats_ is copied
M_Copy(f) ==
    /\ mon_pc = "copying"
    /\ f \in mon_left
    /\ snap' = [snap EXCEPT ![f] = stats[f]]
    /\ mon_left' = mon_left \ {f}
    /\ UNCHANGED <<batch_size, tun, submitted, running, fwd_pc, fwd, stats, last_stats_update_us, now_us,
                   stop_pc, mon_pc, sent_lens, stats_base, poolVars>>

\* GetStats() returns the copy
M_Return ==
    /\ mon_pc = "copying"
    /\ mon_left = {}
    /\ mon_pc' = "returned"
    /\ UNCHANGED <<batch_size, tun, submitted, running, fwd_pc, fwd, stats, last_stats_update_us, now_us,
                   stop_pc, mon_left, snap, sent_lens, stats_base, poolVars>>

\* the control thread and the forwarding thread, nobody calling GetStats()
NextLoop ==
    \/ Start /\ UNCHANGED notFwd
    \/ StopNotRunning /\ UNCHANGED notFwd
    \/ StopStore /\ UNCHANGED notFwd
    \/ StopJoin /\ UNCHANGED notFwd
    \/ F_Prealloc /\ UNCHANGED notFwd
    \/ F_CheckRunning /\ UNCHANGED notFwd
    \/ \E lens \in UNION {Batches(n) : n \in 1..MaxBatch} :
          F_ReceiveBatch(lens) /\ UNCHANGED notFwd
    \/ F_ReceiveNothing /\ UNCHANGED notFwd
    \/ F_ReceiveError /\ UNCHANGED notFwd
    \/ F_Stamp /\ UNCHANGED notFwd
    \/ F_SendFailed /\ UNCHANGED notFwd
    \/ F_SendOk /\ UNCHANGED notFwd
    \/ F_AddBytes /\ UNCHANGED notFwd
    \/ F_CountReceived /\ UNCHANGED notFwd
    \/ F_Stats /\ UNCHANGED notFwd
    \/ F_Free /\ UNCHANGED notFwd
    \/ \E t \in ClockUs : FwdTick(t) /\ UNCHANGED notFwd

\* the steps of the forwarding thread
ForwardingThread ==
    \/ F_Prealloc \/ F_CheckRunning
    \/ \E lens \in UNION {Batches(n) : n \in 1..MaxBatch} : F_ReceiveBatch(lens)
    \/ F_ReceiveNothing \/ F_ReceiveError \/ F_Stamp \/ F_SendFailed \/ F_SendOk
    \/ F_AddBytes \/ F_CountReceived \/ F_Stats \/ F_Free

\* the control thread and the forwarding thread over a longer time: the
\* clock reaches a reading one more statistics period away
StatsClockUs == ClockUs \cup {1200000}

NextStats ==
    \/ NextLoop
    \/ \E t \in StatsClockUs : FwdTick(t) /\ UNCHANGED notFwd

\* the same with a monitoring thread inside GetStats()
NextFwd ==
    \/ Start /\ UNCHANGED notFwd
    \/ StopNotRunning /\ UNCHANGED notFwd
    \/ StopStore /\ UNCHANGED notFwd
    \/ StopJoin /\ UNCHANGED notFwd
    \/ F_Prealloc /\ UNCHANGED notFwd
    \/ F_CheckRunning /\ UNCHANGED notFwd
    \/ \E lens \in UNION {Batches(n) : n \in 1..MaxBatch} :
          F_ReceiveBatch(lens) /\ UNCHANGED notFwd
    \/ F_ReceiveNothing /\ UNCHANGED notFwd
    \/ F_ReceiveError /\ UNCHANGED notFwd
    \/ F_Stamp /\ UNCHANGED notFwd
    \/ F_SendFailed /\ UNCHANGED notFwd
    \/ F_SendOk /\ UNCHANGED notFwd
    \/ F_AddBytes /\ UNCHANGED notFwd
    \/ F_CountReceived /\ UNCHANGED notFwd
    \/ F_Stats /\ UNCHANGED notFwd
    \/ F_Free /\ UNCHANGED notFwd
    \/ \E t \in ClockUs : FwdTick(t) /\ UNCHANGED notFwd
    \/ M_Call /\ UNCHANGED notFwd
    \/ \E f \in RacingFields : M_Copy(f) /\ UNCHANGED notFwd
    \/ M_Return /\ UNCHANGED notFwd

(***************************************************************************)
(* The QUIC client the forwarder sends through (quiche_client.cpp).  A     *)
(* control thread calls Disconnect() while the forwarding thread is inside *)
(* SendViaQuic() and QuicheClient::Send().  connected_ is an atomic; conn_ *)
(* is a plain pointer, read by every call that passes it to quiche.  No    *)
(* lock is taken anywhere.  The control thread may call Connect() again    *)
(* once the client holds no connection; a failed Connect() is not          *)
(* modelled.  What a quiche call does with a handle that was               *)
(* freed, or with a null handle, is undefined: the Send may return either  *)
(* result or crash.  What quiche answers on a connection that was closed   *)
(* and not yet freed is left open.                                         *)
(***************************************************************************)
\* a client whose Connect() has returned 0: connected_ set, conn_ established
ConnectedClient ==
    [connected |-> TRUE, conn |-> "conn", obj |-> "established",
     send_pc |-> <<"none", "idle">>, send_ret |-> "none", bad_use |-> "none",
     disc_pc |-> "idle"]

\* a client as constructed: conn_ = nullptr, connected_ {false}
\* (quiche_client.h:197, 204)
FreshClient ==
    [connected |-> FALSE, conn |-> "null", obj |-> "none",
     send_pc |-> <<"none", "idle">>, send_ret |-> "none", bad_use |-> "none",
     disc_pc |-> "idle"]

\* what a quiche_conn_* call that is passed conn_ is given
HandleUse == IF quic.conn = "null" THEN "null" ELSE quic.obj

\* the results of a Send whose behaviour is undefined
Undefined == {"ok", "fail", "crash"}

\* SendViaQuic returns: 0 ("ok"), -1 ("fail"), or the process has crashed
Returns(ret, bad) ==
    [quic EXCEPT !.send_pc = <<"none", "returned">>, !.send_ret = ret, !.bad_use = bad]

\* the call continues at step at of SendViaQuic ("via") or of Send ("send")
GoesTo(in, at) == [quic EXCEPT !.send_pc = <<in, at>>]

\* The outcomes of the quiche call named call on conn_, next being the state
\* in which the caller goes on: quiche_conn_is_established is true of an
\* established connection and false during the handshake;
\* quiche_conn_stream_send may return an error; quiche_conn_send has no
\* result that Send looks at.
Served(next, call) ==
    CASE HandleUse = "established" ->
            {next} \cup (IF call = "stream_send" THEN {Returns("fail", "none")} ELSE {})
      [] HandleUse = "handshaking" ->
            (IF call = "is_established" THEN {} ELSE {next})
            \cup (IF call = "send" THEN {} ELSE {Returns("fail", "none")})
      [] HandleUse = "closed" ->
            {next} \cup (IF call = "send" THEN {} ELSE {Returns("fail", "none")})
      [] OTHER -> {Returns(r, HandleUse) : r \in Undefined}

\* int SendViaQuic(data, len) is called (quiche_tun_forwarder.cpp:341-342)
S_Call ==
    /\ quic.send_pc[2] \in {"idle", "returned"}
    /\ quic.send_ret /= "crash"
    /\ quic' = [quic EXCEPT !.send_pc = <<"via", "connected_">>, !.send_ret = "none",
                            !.bad_use = "none"]

\* bool IsConnected() const: connected_.load() && conn_ &&
\* quiche_conn_is_established(conn_), one read at a time
\* (quiche_client.cpp:338-340), called by SendViaQuic
\* (quiche_tun_forwarder.cpp:342) and again by Send (quiche_client.cpp:343)
S_IsConnected(in) ==
    /\ quic.send_pc[1] = in
    /\ \/ /\ quic.send_pc[2] = "connected_"
          /\ quic' = IF quic.connected THEN GoesTo(in, "conn_") ELSE Returns("fail", "none")
       \/ /\ quic.send_pc[2] = "conn_"
          /\ quic' = IF quic.conn /= "null" THEN GoesTo(in, "established")
                     ELSE Returns("fail", "none")
       \/ /\ quic.send_pc[2] = "established"
          /\ quic' \in Served(IF in = "via" THEN GoesTo("send", "connected_")
                             ELSE GoesTo("send", "stream_send"), "is_established")

\* sent = quiche_conn_stream_send(conn_, 0, data, len, true); sent < 0 is
\* returned (quiche_client.cpp:348-352)
S_StreamSend ==
    /\ quic.send_pc = <<"send", "stream_send">>
    /\ quic' \in Served(GoesTo("send", "flush"), "stream_send")

\* quiche_conn_send(conn_, out, ...), send() on the socket, return sent
\* (quiche_client.cpp:355-365)
S_Flush ==
    /\ quic.send_pc = <<"send", "flush">>
    /\ quic' \in Served(Returns("ok", "none"), "send")

\* void Disconnect(): if (!connected_.load()) return; running_.store(false);
\* connected_.store(false) (quiche_client.cpp:317-325)
D_Call ==
    /\ quic.disc_pc \in {"idle", "returned"}
    /\ quic' = IF quic.connected
               THEN [quic EXCEPT !.connected = FALSE, !.disc_pc = "close"]
               ELSE [quic EXCEPT !.disc_pc = "returned"]

\* if (conn_) quiche_conn_close(conn_, true, 0, nullptr, 0)
\* (quiche_client.cpp:327-328)
D_Close ==
    /\ quic.disc_pc = "close"
    /\ quic' = IF quic.conn /= "null"
               THEN [quic EXCEPT !.obj = "closed", !.disc_pc = "free"]
               ELSE [quic EXCEPT !.disc_pc = "returned"]

\* quiche_conn_free(conn_) (quiche_client.cpp:329)
D_Free ==
    /\ quic.disc_pc = "free"
    /\ quic' = [quic EXCEPT !.obj = "freed", !.disc_pc = "null"]

\* conn_ = nullptr, and Disconnect returns (quiche_client.cpp:330-336)
D_Null ==
    /\ quic.disc_pc = "null"
    /\ quic' = [quic EXCEPT !.conn = "null", !.obj = "none", !.disc_pc = "returned"]

\* int Connect() on a client that holds no connection, up to the handshake
\* loop: conn_ = quiche_connect(...), connected_.store(true)
\* (quiche_client.cpp:258-288)
K_Connect ==
    /\ quic.disc_pc \in {"idle", "returned"}
    /\ ~quic.connected
    /\ quic.conn = "null"
    /\ quic' = [quic EXCEPT !.connected = TRUE, !.conn = "conn", !.obj = "handshaking",
                            !.disc_pc = "handshake"]

\* the handshake completes and Connect() returns 0 (quiche_client.cpp:296-312)
K_Established ==
    /\ quic.disc_pc = "handshake"
    /\ quic' = [quic EXCEPT !.obj = "established", !.disc_pc = "returned"]

NextQuic ==
    \/ S_Call /\ UNCHANGED notQuic
    \/ \E in \in {"via", "send"} : S_IsConnected(in) /\ UNCHANGED notQuic
    \/ S_StreamSend /\ UNCHANGED notQuic
    \/ S_Flush /\ UNCHANGED notQuic
    \/ D_Call /\ UNCHANGED notQuic
    \/ D_Close /\ UNCHANGED notQuic
    \/ D_Free /\ UNCHANGED notQuic
    \/ D_Null /\ UNCHANGED notQuic
    \/ K_Connect /\ UNCHANGED notQuic
    \/ K_Established /\ UNCHANGED notQuic

(***************************************************************************)
(* The specifications.  The components a specification does not run stay   *)
(* as constructed.                                                         *)
(***************************************************************************)
IdleRing == InitRing /\ capacity = 1 /\ InitThreads
IdlePool == InitPool /\ PoolSize = 1
IdlePacing ==
    /\ InitPacing
    /\ params = [target_rate_bps |-> 0, max_burst_bytes |-> 1500,
                 loss_aware_backoff |-> FALSE, enable_pacing |-> FALSE,
                 min_pacing_interval_ns |-> 0]
IdleQuic == quic = ConnectedClient
IdleForwarder == InitForwarder /\ batch_size = 1 /\ tun.left = 0 /\ IdleQuic

\* the ring used by one caller at a time
Init == InitRing /\ InitThreads /\ IdlePool /\ IdlePacing /\ IdleForwarder
Spec == Init /\ [][NextRing]_vars

\* the ring used by a producer, a consumer and an observer thread
InitConc ==
    /\ InitRing /\ capacity <= ConcMaxCapacity /\ InitThreads
    /\ IdlePool /\ IdlePacing /\ IdleForwarder
SpecConc == InitConc /\ [][NextConc]_vars

\* the packet pool
InitPoolSpec == IdleRing /\ InitPool /\ IdlePacing /\ IdleForwarder
SpecPool == InitPoolSpec /\ [][NextPool]_vars

\* the pacing engine
InitPacingSpec == IdleRing /\ IdlePool /\ InitPacing /\ IdleForwarder
SpecPacing == InitPacingSpec /\ [][NextPacing]_vars

\* the forwarder: control thread, forwarding thread, monitoring thread
InitFwd ==
    /\ IdleRing /\ InitPool /\ PoolSize <= FwdMaxPoolSize /\ IdlePacing
    /\ InitForwarder /\ tun.left = MaxPackets /\ IdleQuic
SpecFwd == InitFwd /\ [][NextFwd]_vars

\* the forwarder: control thread and forwarding thread
InitLoop ==
    /\ IdleRing /\ InitPool /\ PoolSize <= FwdMaxPoolSize /\ IdlePacing
    /\ InitForwarder /\ tun.left = LoopMaxPackets /\ IdleQuic
SpecLoop == InitLoop /\ [][NextLoop]_vars

\* the control thread and the forwarding thread under a scheduler that lets
\* every thread run: the forwarding thread takes its next step, and a join
\* whose thread has ended returns
SpecCancel ==
    /\ InitFwd /\ [][NextLoop]_vars
    /\ WF_vars(ForwardingThread /\ UNCHANGED notFwd)
    /\ WF_vars(StopJoin /\ UNCHANGED notFwd)

\* the control thread and the forwarding thread over several statistics
\* periods
SpecStats == InitFwd /\ [][NextStats]_vars

\* the QUIC client: a thread inside SendViaQuic, a thread inside Disconnect
InitQuic ==
    /\ IdleRing /\ IdlePool /\ IdlePacing
    /\ InitForwarder /\ batch_size = 1 /\ tun.left = 0
    /\ quic \in {ConnectedClient, FreshClient}
SpecQuic == InitQuic /\ [][NextQuic]_vars

\* the pacing engine under fixed parameters, pacing enabled and a rate set
InitRate == IdleRing /\ IdlePool /\ params \in RateParamSet /\ InitState /\ IdleForwarder
SpecRate == InitRate /\ [][NextRate]_vars

\* the pacing engine and a caller that polls it for ever: whenever a poll is
\* possible, one is eventually made
InitPoll == IdleRing /\ IdlePool /\ params \in PollParamSet /\ InitState /\ IdleForwarder
SpecPoll == InitPoll /\ [][NextPoll]_vars /\ WF_vars(Polls /\ UNCHANGED <<window, notEngine>>)

\* the arithmetic of the pacing engine on 64-bit operands
InitWide == IdleRing /\ IdlePool /\ IdlePacing /\ IdleForwarder
SpecWide == InitWide /\ [][NextWide]_vars

\* The ring late in its life, used by one caller at a time: empty, both
\* positions at 0, and both sequence counters at the same value, which is 0
\* or a value a few wraps below 2^32 (a ring of capacity >= 2 gets there by
\* alternating enqueue and dequeue).  The cells hold bytes of no interest.
SeqStarts == {SeqZero, <<Half - 1, Half - 3>>}

InitWrapped ==
    /\ capacity \in 2..MaxCapacity
    /\ write_pos = 0
    /\ read_pos = 0
    /\ write_seq \in SeqStarts
    /\ read_seq = write_seq
    /\ data = [c \in 0..(capacity - 1) |-> 0]
    /\ heap_overflow = FALSE
    /\ enq_total = 0
    /\ deq_stream = <<>>
    /\ ring_op = NoOp
    /\ ring_log = [calls |-> <<>>, more |-> FALSE]
    /\ handle = Created
    /\ InitThreads /\ IdlePool /\ IdlePacing /\ IdleForwarder
SpecWrapped == InitWrapped /\ [][NextRing]_vars

\* the ring from before its creation to after its destruction
InitLife == InitNoRing /\ InitThreads /\ IdlePool /\ IdlePacing /\ IdleForwarder
SpecLife == InitLife /\ [][NextLife]_vars

(***************************************************************************)
(* The claims.                                                             *)
(***************************************************************************)
\* pepper_queue_used(rb) in the current state
UsedNow == QueueUsed(capacity, write_pos, write_seq, read_pos, read_seq)

\* pepper_queue_available(rb) in the current state
AvailableNow == QueueAvailable(capacity, write_pos, write_seq, read_pos, read_seq)

\* the writer has wrapped past the physical end and the reader has not
Wrapped == write_seq /= read_seq

\* C1: the number of bytes enqueued and not yet dequeued is at most
\* capacity - 1 in every state reached by enqueue / dequeue calls, the
\* states where the writer has wrapped and the reader has not included.
C1_CapacityInvariant == Held <= capacity - 1

\* C2: as long as the enqueues have accepted at most capacity - 1 bytes in
\* total, the bytes the dequeues returned are a prefix, in order, of the
\* bytes the enqueues accepted, and are all of them once the ring is
\* drained (used() is 0, or a dequeue found it empty).
C2_RoundTrip ==
    enq_total <= capacity - 1 =>
        /\ IsPrefix(deq_stream, EnqStream)
        /\ (UsedNow = 0 => deq_stream = EnqStream)
        /\ (ring_op.op = "dequeue" /\ ring_op.arg > 0 /\ ring_op.ret = 0
                => deq_stream = EnqStream)

\* C2's case: capacity - 1 bytes went in by several enqueues and came out,
\* all of them, by several interleaved dequeues.
C2_Witness ==
    /\ capacity >= 3
    /\ enq_total = capacity - 1
    /\ deq_stream = EnqStream
    /\ ring_op.op = "dequeue"
    /\ ring_op.ret > 0
    /\ ring_op.ret < enq_total
    /\ ring_op.held < enq_total

\* C3: an enqueue of length > 0 returns min(length, available - 1) with
\* available = capacity - (bytes held before the call), and returns 0
\* exactly when the ring was full (held = capacity - 1).
C3_EnqueueAmount ==
    ring_op.op = "enqueue" /\ ring_op.arg > 0 =>
        /\ ring_op.ret = Min(ring_op.arg, (capacity - ring_op.held) - 1)
        /\ (ring_op.ret = 0 <=> ring_op.held = capacity - 1)

\* C4: between calls used() is the number of bytes enqueued and not yet
\* dequeued, and available() is capacity - 1 - that number, however often
\* the positions have crossed the physical end.
C4_WrapCorrectness ==
    /\ UsedNow = Held
    /\ AvailableNow = capacity - 1 - Held

\* the pacing engine limits the rate
RateLimited == params.enable_pacing /\ params.target_rate_bps > 0

\* interval = max(packet_size*8*10^9 / R, min_pacing_interval_ns), R > 0
ClaimedIntervalNs(packet_size) ==
    LET byRate == MulDivFloor(NsPerSec, packet_size * 8, params.target_rate_bps)
    IN  IF byRate >= params.min_pacing_interval_ns THEN byRate
        ELSE params.min_pacing_interval_ns

\* a backoff is pending at the clock's reading
BackoffPending == in_backoff /\ now_ns < backoff_until_ns

\* C6, as stated: with pacing enabled and R > 0, the caller that repeats
\* { if can_send(packet_size, 0) then update_after_send(packet_size, 0) }
\* on a fresh state, packet_size <= B, has exactly floor(B / packet_size)
\* packets admitted when can_send first returns false.
C6_TokenConservation ==
    burst.phase = "over" /\ RateLimited /\ burst.size <= params.max_burst_bytes
        => burst.count = params.max_burst_bytes \div burst.size

\* C6, amended: that caller has exactly one packet admitted when the pacing
\* interval of the packet is positive (the first update_after_send closes
\* the time gate until 0 + interval), and floor(B / packet_size) packets only
\* when the interval is 0.
C6_OnePacketPerInterval ==
    burst.phase = "over" /\ RateLimited /\ burst.size <= params.max_burst_bytes
        => burst.count = IF ClaimedIntervalNs(burst.size) > 0 THEN 1
                         ELSE params.max_burst_bytes \div burst.size

\* C6's case: the bucket held three packets' worth of tokens and the run of
\* back-to-back sends ended after one.
C6_Witness ==
    /\ burst.phase = "over"
    /\ RateLimited
    /\ params.max_burst_bytes \div burst.size = 3
    /\ burst.count = 1
    /\ pace_op.op = "can_send"
    /\ ~pace_op.ret

\* C7, as stated: after update_after_send(packet_size, t) with R > 0,
\* can_send returns false at every t' < t + interval and true at every
\* t' >= t + interval at which the bucket holds at least packet_size tokens.
C7_IntervalEnforcement ==
    pace_op.op = "can_send" /\ last_send.valid /\ params.target_rate_bps > 0 =>
        LET deadline == last_send.time + ClaimedIntervalNs(last_send.size)
        IN  /\ (now_ns < deadline => ~pace_op.ret)
            /\ (now_ns >= deadline /\ tokens >= pace_op.size => pace_op.ret)

\* C7, amended: with pacing enabled and R > 0, can_send returns false at
\* every t' < t + interval, and returns true at every t' >= t + interval at
\* which no loss backoff is pending (in_backoff with t' < backoff_until_ns)
\* and the refilled bucket holds at least packet_size tokens.
C7_IntervalEnforcementEnabled ==
    pace_op.op = "can_send" /\ last_send.valid /\ RateLimited =>
        LET deadline == last_send.time + ClaimedIntervalNs(last_send.size)
        IN  /\ (now_ns < deadline => ~pace_op.ret)
            /\ (now_ns >= deadline /\ ~BackoffPending /\ tokens >= pace_op.size
                    => pace_op.ret)

\* C7's case: a full-size packet was sent from a full bucket, and can_send
\* admits the next one exactly one interval later, the bucket just refilled.
C7_Witness ==
    /\ pace_op.op = "can_send"
    /\ RateLimited
    /\ last_send.valid
    /\ last_send.size = params.max_burst_bytes
    /\ pace_op.size = params.max_burst_bytes
    /\ now_ns = last_send.time + ClaimedIntervalNs(last_send.size)
    /\ ClaimedIntervalNs(last_send.size) > params.min_pacing_interval_ns
    /\ pace_op.ret

\* C8: on a state that was freshly initialised with loss_aware_backoff and
\* then fed update_metrics(0.5, 100 ms) until the smoothed loss rate exceeds
\* 0.1, update_after_send(size, now) sets in_backoff with backoff_until - now
\* between 1 and 11 times the 100 ms that were fed.
C8_BackoffRange ==
    /\ pace_op.op = "update_after_send"
    /\ params.loss_aware_backoff
    /\ fed.n > 0
    /\ fed.uniform
    /\ loss_rate > LossThreshold
    => /\ in_backoff
       /\ backoff_until_ns - now_ns >= FedRttNs
       /\ backoff_until_ns - now_ns <= 11 * FedRttNs

\* C9: a value returned by available() or used() while a producer and a
\* consumer are inside enqueue / dequeue is never a corrupted value: it
\* lies in 0..capacity-1.
C9_SnapshotInRange ==
    obs_pc = "returned" => obs.ret \in 0..(capacity - 1)

\* C5: AllocatePacket() returns null if and only if every buffer of the pool
\* is in use: N allocations without a free succeed, the next returns null,
\* and after a FreePacket() of any one buffer the next allocation succeeds,
\* for every pool size and every value of pool_index_.
C5_NullIffExhausted ==
    pool_op.op = "alloc" => (pool_op.ret = Null <=> pool_op.free = 0)

RECURSIVE SumSeq(_)
SumSeq(q) == IF q = <<>> THEN 0 ELSE q[1] + SumSeq(Tail(q))

\* C10: a snapshot GetStats() returns while the forwarding loop runs is
\* never torn or inconsistent: its bytes_sent covers every packet its
\* packets_sent counts, and its packets_sent + packets_dropped does not
\* exceed its packets_received.
C10_ConsistentSnapshot ==
    mon_pc = "returned" =>
        /\ snap.packets_sent <= Len(sent_lens)
        /\ snap.bytes_sent = SumSeq(SubSeq(sent_lens, 1, snap.packets_sent))
        /\ snap.packets_sent + snap.packets_dropped <= snap.packets_received

\* Stop() has returned and Start() has not been called since
Stopped == stop_pc = "returned"

\* C11: whenever a call to Stop() returns, the forwarding loop has fully
\* terminated: the thread function has returned (or no thread was ever
\* started), and while Stop() stays returned the loop receives nothing from
\* the TUN device and submits nothing to SendViaQuic.  Start() and Stop() are
\* called by one control thread.
C11_StopIsCleanJoin ==
    /\ [](Stopped => fwd_pc \in {"none", "done"})
    /\ [][Stopped /\ Stopped' => UNCHANGED <<tun, submitted>>]_vars

\* Stop() has joined a loop that had forwarded packets and was still running
\* when Stop() was called
C11_Witness ==
    /\ Stopped
    /\ fwd_pc = "done"
    /\ ~running
    /\ fwd.received = "packets"
    /\ Len(submitted) > 0

\* the loop is between the receive of a batch and the end of ProcessPacketBatch
InBatch == fwd_pc \in {"stamp", "send", "bytes"}

\* the packets of the current batch that ProcessPacketBatch has submitted
DoneOfBatch ==
    IF fwd_pc = "send" THEN fwd.i - 1
    ELSE IF fwd_pc = "bytes" THEN fwd.i
    ELSE IF fwd_pc = "stamp" THEN 0
    ELSE Len(fwd.batch)

FailedSends == Cardinality({k \in 1..Len(submitted) : ~submitted[k].ok})

\* this step is a SendViaQuic call that failed
SendFails == Len(submitted') = Len(submitted) + 1 /\ ~submitted'[Len(submitted')].ok

\* C13: a SendViaQuic call that fails for packet i of a batch increments
\* packets_dropped by exactly one and leaves packets_sent and bytes_sent as
\* they are; ProcessPacketBatch goes on with packet i + 1, or returns to the
\* loop after the last packet, so the packets after i are still submitted and
\* the loop keeps running.  packets_dropped counts the failed calls.
C13_SendFailureIsDrop ==
    /\ [][SendFails =>
            /\ stats'.packets_dropped = stats.packets_dropped + 1
            /\ stats'.packets_sent = stats.packets_sent
            /\ stats'.bytes_sent = stats.bytes_sent
            /\ fwd_pc' = IF fwd.i < Len(fwd.batch) THEN "send" ELSE "count"
            /\ fwd'.i = fwd.i + 1]_vars
    /\ [](stats.packets_dropped = FailedSends)
    /\ [](fwd_pc \in {"count", "stats"} => Len(submitted) = tun.delivered)

\* the first packet of a batch of two was dropped, the second one was
\* submitted and sent, and the loop is at its next iteration
C13_Witness ==
    /\ Len(fwd.batch) = 2
    /\ fwd.first = 1
    /\ Len(submitted) = 2
    /\ ~submitted[1].ok
    /\ submitted[2].ok
    /\ stats.packets_dropped = 1
    /\ stats.packets_sent = 1
    /\ fwd_pc = "recv"

\* this step is a return of ReceiveTunPacketsBatch with outcome r
Receives(r) == fwd_pc = "recv" /\ fwd_pc' /= "recv" /\ fwd'.received = r

\* C14: a batch receive that returns 0 packets or fails with EAGAIN /
\* EWOULDBLOCK changes no counter of stats_ and the loop goes on to the end of
\* the iteration; after it the loop leaves the while only when running_ has
\* been cleared.  A batch receive that fails with another error makes the
\* loop leave the while: the thread frees its buffers and returns, and no
\* packet is received or submitted afterwards.
C14_TunReadOutcomes ==
    /\ [][Receives("nothing") =>
            /\ fwd_pc' = "stats"
            /\ UNCHANGED <<tun, submitted>>
            /\ \A f \in {"packets_received", "packets_sent", "packets_dropped",
                         "bytes_received", "bytes_sent"} : stats'[f] = stats[f]]_vars
    /\ [](fwd.received = "nothing" /\ fwd_pc \in {"free", "done"} => ~running)
    /\ [][Receives("error") => fwd_pc' = "free" /\ UNCHANGED <<stats, tun, submitted>>]_vars
    /\ [](fwd.received = "error" => fwd_pc \in {"free", "done"})
    /\ [][fwd.received = "error" /\ fwd'.received = "error" =>
            UNCHANGED <<stats, tun, submitted>>]_vars

\* a hard receive error has ended a loop that had forwarded a packet, while
\* running_ is still set and the TUN device has more packets
C14_Witness ==
    /\ fwd.received = "error"
    /\ fwd_pc = "done"
    /\ running
    /\ Len(submitted) > 0
    /\ tun.left > 0

\* the buffers of the pool that are marked in use
InUse == DOMAIN packet_pool \ FreeSlots

\* this step is an AllocatePacket() call that returns a buffer
AllocReturnsBuffer ==
    pool_index' /= pool_index /\ pool_op'.op = "alloc" /\ pool_op'.ret /= Null

\* C15: under any sequence of AllocatePacket() and FreePacket() calls the
\* number of buffers handed out and not yet given back is at most the pool
\* size and is the number of buffers marked in use, and every buffer
\* AllocatePacket() returns had in_use = false before the call and has
\* in_use = true and len = 0 after it.
C15_PoolOwnership ==
    /\ [](pool_op.out <= PoolSize /\ pool_op.out = Cardinality(InUse))
    /\ [][AllocReturnsBuffer =>
            /\ ~packet_pool[pool_op'.ret].in_use
            /\ packet_pool'[pool_op'.ret] = [in_use |-> TRUE, len |-> 0]]_vars

\* a buffer that had been given back was handed out again and every buffer of
\* a pool of at least two is checked out
C15_Witness ==
    /\ pool_op.op = "alloc"
    /\ pool_op.ret /= Null
    /\ PoolSize >= 2
    /\ pool_op.out = PoolSize
    /\ pool_index > PoolSize

\* C16: once the forwarder has been stopped, the rates GetStats() reports
\* (tx_rate_mbps, rx_rate_mbps, here in bits per second) are zero.  GetStats()
\* returns stats_, which nothing writes after the loop has ended.
C16_StoppedIsZeroThroughput ==
    Stopped /\ fwd_pc = "done" => stats.tx_rate_bps = 0 /\ stats.rx_rate_bps = 0

\* the fresh ring has only been enqueued to: the calls so far, all logged,
\* are enqueue calls
OnlyEnqueues ==
    /\ ~ring_log.more
    /\ \A k \in 1..Len(ring_log.calls) : ring_log.calls[k].op = "enqueue"

\* the bytes offered by the logged calls, and the bytes they accepted
RECURSIVE SumArg(_)
SumArg(calls) == IF calls = <<>> THEN 0 ELSE calls[1].arg + SumArg(Tail(calls))
RECURSIVE SumRet(_)
SumRet(calls) == IF calls = <<>> THEN 0 ELSE calls[1].ret + SumRet(Tail(calls))

\* C17: on a fresh ring of capacity C, enqueue calls with no dequeue in
\* between accept min(total offered, C - 1) bytes in total, and once C - 1
\* bytes are held every further enqueue returns 0 and changes none of
\* write_pos, write_seq, read_pos, read_seq nor any stored byte.
C17_Saturation ==
    /\ [](OnlyEnqueues =>
            /\ SumRet(ring_log.calls) = Min(SumArg(ring_log.calls), capacity - 1)
            /\ enq_total = SumRet(ring_log.calls)
            /\ Held = enq_total)
    /\ [][OnlyEnqueues /\ Held = capacity - 1 /\ ring_op'.op = "enqueue" =>
            /\ ring_op'.ret = 0
            /\ UNCHANGED <<write_pos, write_seq, read_pos, read_seq, data>>]_vars

\* a ring of capacity 4 with 3 bytes held after two enqueues has refused a
\* third enqueue
C17_Witness ==
    /\ OnlyEnqueues
    /\ capacity = 4
    /\ Len(ring_log.calls) = 3
    /\ ring_log.calls[1].ret > 0
    /\ ring_log.calls[2].ret > 0
    /\ ring_log.calls[3].arg > 0
    /\ ring_log.calls[3].ret = 0
    /\ Held = capacity - 1

\* the calls so far begin with enqueue n bytes, dequeue n bytes, enqueue n
\* bytes, for an n with C/2 < n <= C - 1
RefillOf(n) ==
    /\ ~ring_log.more
    /\ Len(ring_log.calls) >= 3
    /\ ring_log.calls[1].op = "enqueue" /\ ring_log.calls[1].arg = n
    /\ ring_log.calls[2].op = "dequeue" /\ ring_log.calls[2].arg = n
    /\ ring_log.calls[3].op = "enqueue" /\ ring_log.calls[3].arg = n
    /\ capacity < 2 * n
    /\ n <= capacity - 1

\* C18: for a ring of capacity C and C/2 < n <= C - 1, in the sequence
\* enqueue n bytes, dequeue n bytes, enqueue n bytes the second enqueue (which
\* crosses the end of the region) returns n, and a dequeue that follows, of n
\* bytes or more, returns exactly the n bytes of the second enqueue, in order.
C18_WrapReclaims ==
    /\ [](\A n \in 1..MaxLen :
             RefillOf(n) =>
                /\ ring_log.calls[1].ret = n
                /\ ring_log.calls[2].ret = n
                /\ ring_log.calls[3].ret = n
                /\ Len(ring_log.calls) = 3 =>
                      Wrapped /\ Held = n /\ deq_stream = [i \in 1..n |-> i])
    /\ [][\A n \in 1..MaxLen :
             (RefillOf(n) /\ Len(ring_log.calls) = 3
                 /\ ring_op'.op = "dequeue" /\ ring_op'.arg >= n) =>
                /\ ring_op'.ret = n
                /\ deq_stream' = [i \in 1..(2 * n) |-> i]]_vars

\* capacity 4, n = 3: the second enqueue of 3 bytes has crossed the end of
\* the region and a dequeue has returned its 3 bytes after the first 3
C18_Witness ==
    /\ capacity = 4
    /\ ring_op.op = "dequeue"
    /\ ring_op.held = 3
    /\ ~ring_op.same_gen
    /\ ring_op.ret = 3
    /\ enq_total = 6
    /\ deq_stream = <<1, 2, 3, 4, 5, 6>>
    /\ read_pos = 2
    /\ write_pos = 2

\* C19: with enable_pacing false, can_send returns true for every packet
\* size, every timestamp and every pacing state (a pending backoff and a
\* next_send_time in the future included), and it modifies no field of the
\* pacing state.
C19_DisabledGateIsNoOp ==
    [][pace_op'.op = "can_send" /\ ~params.enable_pacing =>
         /\ pace_op'.ret
         /\ UNCHANGED <<next_send_time_ns, tokens, last_update_ns, loss_rate, rtt_ns,
                        in_backoff, backoff_until_ns>>]_vars

\* can_send has returned true with pacing disabled while a backoff is pending
\* and next_send_time is in the future
C19_Witness ==
    /\ ~params.enable_pacing
    /\ pace_op.op = "can_send"
    /\ pace_op.ret
    /\ BackoffPending
    /\ now_ns < next_send_time_ns

\* C20: pepper_pacing_init, at attach and at every parameter update, leaves
\* tokens = max_burst_bytes of the new parameters, next_send_time =
\* last_update = the current time, in_backoff = false, loss_rate = 0 and
\* rtt = 0 (and backoff_until = 0), whatever the state was before: nothing of
\* the previous epoch survives.
C20_WholesaleInit ==
    pace_op.op = "init" =>
        /\ tokens = params.max_burst_bytes
        /\ next_send_time_ns = now_ns
        /\ last_update_ns = now_ns
        /\ ~in_backoff
        /\ backoff_until_ns = 0
        /\ loss_rate = 0
        /\ rtt_ns = 0

\* the parameters have been updated, to another burst size, after the clock
\* had advanced
C20_Witness ==
    /\ pace_op.op = "init"
    /\ now_ns > 0
    /\ next_send_time_ns = now_ns
    /\ params.max_burst_bytes \in NewBursts
    /\ tokens = params.max_burst_bytes

\* C22: with one producer thread inside enqueue and one consumer thread
\* inside dequeue, interleaved at every atomic load, store and copy, the byte
\* stream the dequeues have returned is always a prefix of the byte stream
\* the enqueues have accepted.
C22_StreamIntegrity == IsPrefix(deq_stream, EnqStream)


\* a step that is a pepper_queue_create call
CreateStep == handle'.op = "create" /\ handle' /= handle

\* a step that is an enqueue or dequeue call with a null ring or a null
\* data pointer
RefusedStep == handle'.op \in {"enqueue", "dequeue"} /\ handle' /= handle

\* a step that is an enqueue or dequeue call of length 0 on a ring
ZeroLengthStep ==
    /\ handle.rb = "ring" /\ handle' = handle
    /\ ring_op'.op \in {"enqueue", "dequeue"} /\ ring_op'.arg = 0

\* pepper_queue_create has returned a ring of the capacity asked for, with
\* its four counters at 0
CreateSucceeds ==
    /\ handle'.rb = "ring"
    /\ capacity' = handle'.arg
    /\ DOMAIN data' = 0..(capacity' - 1)
    /\ write_pos' = 0 /\ write_seq' = SeqZero
    /\ read_pos' = 0 /\ read_seq' = SeqZero

\* pepper_queue_create has returned null and nothing of a ring exists
CreateFails == handle'.rb = "null" /\ NoRing'

\* the refused calls of C21: they return 0 and leave the four counters alone
C21_RefusedCalls ==
    /\ [][RefusedStep => handle'.ret = 0
                          /\ UNCHANGED <<write_pos, write_seq, read_pos, read_seq>>]_vars
    /\ [][ZeroLengthStep => ring_op'.ret = 0
                          /\ UNCHANGED <<write_pos, write_seq, read_pos, read_seq>>]_vars

\* C21 as stated: pepper_queue_create returns null, and no buffer exists,
\* when the capacity is 0 or greater than 64 MiB, and succeeds with all four
\* counters at 0 for every other capacity; enqueue and dequeue called with a
\* null ring, a null data pointer or length 0 return 0 and leave write_pos,
\* write_seq, read_pos and read_seq unchanged.
C21_ValidationOnly ==
    /\ [](handle.rb = "null" => NoRing)
    /\ [][CreateStep =>
            IF handle'.arg = 0 \/ handle'.arg > MaxRingBytes
            THEN CreateFails ELSE CreateSucceeds]_vars
    /\ C21_RefusedCalls

\* C21, amended: pepper_queue_create returns null, and no buffer exists, when
\* the capacity is 0 or greater than 64 MiB or when one of its two
\* allocations fails, and succeeds with all four counters at 0 otherwise;
\* enqueue and dequeue called with a null ring, a null data pointer or
\* length 0 return 0 and leave the four counters unchanged.
C21_NoPartialState ==
    /\ [](handle.rb = "null" => NoRing)
    /\ [][CreateStep =>
            IF handle'.arg = 0 \/ handle'.arg > MaxRingBytes \/ handle'.cond /= "ok"
            THEN CreateFails ELSE CreateSucceeds]_vars
    /\ C21_RefusedCalls

\* a create of an accepted capacity has returned null because posix_memalign
\* failed, and no ring exists
C21_Witness ==
    /\ handle.op = "create" /\ handle.cond = "no_region"
    /\ handle.arg \in 1..LifeMaxCapacity
    /\ handle.rb = "null" /\ NoRing


\* C23: in every state reached by enqueue and dequeue calls the number of
\* bytes a call decides to copy (to_write, to_read: what it returns) is at
\* most capacity - 1, no copy touches a byte outside cells 0..capacity-1 of
\* the region, and a call that takes the different-generation branch never
\* evaluates read_pos - write_pos with read_pos < write_pos.
C23_MemorySafety ==
    /\ [](ring_op.op /= "none" => ring_op.ret <= capacity - 1)
    /\ [](~heap_overflow)
    /\ [][ring_op'.op \in {"enqueue", "dequeue"} /\ ring_op'.arg > 0
            /\ ~ring_op'.same_gen => read_pos >= write_pos]_vars


\* C24: there is no state, visible to another thread, in which an enqueue
\* that wraps has published its new write_pos while write_seq still holds
\* the generation from before the wrap, nor one in which a dequeue that
\* wraps has published its new read_pos while read_seq still holds the old
\* generation.
C24_NoStaleGeneration ==
    /\ ~(/\ prod_pc = "store_write_seq"
         /\ write_pos = NewPos(prod.write_pos, prod.n, capacity)
         /\ write_seq = prod.write_seq)
    /\ ~(/\ cons_pc = "store_read_seq"
         /\ read_pos = NewPos(cons.read_pos, cons.n, capacity)
         /\ read_seq = cons.read_seq)


\* (s + 1) mod 2^32 for a counter kept as <<high 16 bits, low 16 bits>>
Plus1Mod32(s) ==
    IF s[2] < Half - 1 THEN <<s[1], s[2] + 1>>
    ELSE IF s[1] < Half - 1 THEN <<s[1] + 1, 0>>
    ELSE SeqZero

\* C25: write_seq changes only in an enqueue whose position reaches or
\* passes capacity, and read_seq only in such a dequeue; the counter then
\* becomes (old value + 1) mod 2^32, so that 0xFFFFFFFE is followed by
\* 0xFFFFFFFF and 0xFFFFFFFF by 0; in every other call it is unchanged.
C25_SeqArithmetic ==
    /\ [][write_seq' =
            IF ring_op'.op = "enqueue" /\ write_pos + ring_op'.ret >= capacity
               /\ ring_op'.ret > 0
            THEN Plus1Mod32(write_seq) ELSE write_seq]_vars
    /\ [][read_seq' =
            IF ring_op'.op = "dequeue" /\ read_pos + ring_op'.ret >= capacity
               /\ ring_op'.ret > 0
            THEN Plus1Mod32(read_seq) ELSE read_seq]_vars


\* C26: with pacing enabled, fixed parameters with a rate R > 0 and a burst
\* size B, a clock that does not go back, and a caller that sends a packet
\* only directly after can_send returned true for it, the bytes sent in an
\* interval of time [t0, t1] never exceed B + R * (t1 - t0) / (8 * 10^9).
C26_RateBound ==
    window.bytes <= params.max_burst_bytes
                    + MulDivFloor(now_ns - window.t0, params.target_rate_bps, NsPerSec) \div 8

\* an interval that began after init in which the bound is attained: a full
\* bucket spent at its beginning and the bytes earned since spent as well
C26_Witness ==
    /\ window.t0 > 0 /\ now_ns > window.t0
    /\ window.bytes > params.max_burst_bytes
    /\ window.bytes = params.max_burst_bytes
                      + MulDivFloor(now_ns - window.t0, params.target_rate_bps, NsPerSec) \div 8


\* a step that is a can_send call with pacing enabled
GatedCanSend == pace_op'.op = "can_send" /\ params.enable_pacing

\* C29: with pacing enabled can_send checks the backoff first, then the time
\* gate, then the tokens.  While in_backoff is set and now < backoff_until
\* it returns false and leaves in_backoff set and every other field
\* unchanged; the first call that observes now >= backoff_until clears
\* in_backoff, also when that call then returns false for the time gate or
\* for missing tokens; and no operation other than such a can_send call and
\* init ever clears in_backoff.
C29_GateOrder ==
    /\ [][GatedCanSend /\ in_backoff /\ now_ns < backoff_until_ns =>
            /\ ~pace_op'.ret /\ in_backoff'
            /\ UNCHANGED <<next_send_time_ns, tokens, last_update_ns, loss_rate,
                           rtt_ns, backoff_until_ns>>]_vars
    /\ [][GatedCanSend /\ ~(in_backoff /\ now_ns < backoff_until_ns) =>
            /\ ~in_backoff'
            /\ (now_ns < next_send_time_ns =>
                  ~pace_op'.ret /\ UNCHANGED <<tokens, last_update_ns>>)]_vars
    /\ [][in_backoff /\ ~in_backoff' =>
            \/ pace_op'.op = "init"
            \/ GatedCanSend /\ now_ns >= backoff_until_ns]_vars

\* a can_send call has found the backoff over and the time gate open, has
\* left in_backoff cleared and refilled the bucket, and has then returned
\* false because the tokens do not cover the packet
C29_Witness ==
    /\ pace_op.op = "can_send" /\ ~pace_op.ret
    /\ params.enable_pacing /\ params.loss_aware_backoff
    /\ ~in_backoff /\ backoff_until_ns > 0 /\ now_ns >= backoff_until_ns
    /\ now_ns >= next_send_time_ns
    /\ last_update_ns = now_ns /\ tokens < pace_op.size


\* a step that is a can_send call with pacing enabled and a rate set
RatedCanSend == GatedCanSend /\ params.target_rate_bps > 0

\* a can_send call at this state is stopped by the backoff or by the time
\* gate
StoppedAtGate ==
    \/ in_backoff /\ now_ns < backoff_until_ns
    \/ now_ns < next_send_time_ns

\* the bucket after a refill at this state
Refilled ==
    Min(tokens + MulDivFloor(now_ns - last_update_ns, params.target_rate_bps, NsPerSec) \div 8,
        params.max_burst_bytes)

Refused == pace_op.op = "can_send" /\ ~pace_op.ret

\* C27: with pacing enabled, a rate R > 0, packets no larger than the burst
\* size and no backoff pending, a caller that keeps polling can_send with
\* strictly advancing timestamps is eventually admitted, however close to
\* one another its polls are, polls closer than the 8 * 10^9 / R ns that
\* one token takes included.
C27_PollingLiveness == Refused ~> (pace_op.op = "can_send" /\ pace_op.ret)


\* the exact product of two uint64_t, as 16 bytes
Exactly(a, b) == Times(a, b, 16)

\* x, 8 bytes long, and y, 16 bytes long, are the same number
Same(x, y) == \A i \in 0..15 : ByteAt(x, i) = y[i]

\* C28: the tokens a refill adds are floor(elapsed_ns * target_rate_bps /
\* (8 * 10^9)) of the exact product, for all 64-bit operands, so that a
\* bucket left idle for at least 8 * 10^9 * B / R ns is full after it; and
\* packet_size * 8 * 10^9 in update_after_send is the exact product too.
C28_RefillDoesNotOverflow ==
    /\ wide.op = "refill" =>
         LET exact == OverBitsPerByteNs(Exactly(wide.elapsed_ns, wide.target_rate_bps))
         IN  /\ Same(wide.tokens_to_add, exact)
             /\ (~Small(exact) \/ Value(exact) >= wide.max_burst_bytes
                   => wide.tokens = wide.max_burst_bytes)
    /\ wide.op = "interval" =>
         Same(wide.bits_ns,
              Exactly(Times(wide.packet_size, Bytes(8, 8), 8), Bytes(NsPerSec, 8)))

(***************************************************************************)
(* Backoff entry.                                                          *)
(***************************************************************************)
\* a step that is a call of update_after_send
SendStep == pace_op'.op = "update_after_send"

\* params->loss_aware_backoff && state->loss_rate > 0.1f, before the call
EntersBackoff == params.loss_aware_backoff /\ loss_rate > LossThreshold

\* the rtt the backoff is measured in: the smoothed rtt, or 100 ms when it is 0
BackoffBase == IF rtt_ns > 0 THEN rtt_ns ELSE DefaultRttNs

\* the part of the claim that is about when the backoff is entered and what
\* a call that does not enter it leaves alone
BackoffEntry ==
    SendStep =>
        /\ EntersBackoff =>
              /\ in_backoff'
              /\ backoff_until_ns' =
                     now_ns + MulDivFloor(BackoffBase, LossOne + 10 * loss_rate, LossOne)
        /\ ~EntersBackoff => UNCHANGED <<in_backoff, backoff_until_ns>>

\* a factor on a scale from 1x at a loss rate of 10% to 11x at 100%:
\* 1 + 10 * (loss - 0.1) / 0.9, applied to base
ScaledFromThreshold(base, loss) ==
    base + MulDivFloor(base, 10 * (loss - LossThreshold), LossOne - LossThreshold)

BucketStep == pace_op'.op \in {"can_send", "update_after_send"}

\* C32: in every state the engine reaches from init, tokens lies in
\* 0..max_burst_bytes; update_after_send with a packet larger than the tokens
\* held leaves tokens = 0; and with target_rate_bps = 0 neither can_send nor
\* update_after_send changes tokens or last_update.
C32_TokenBounds ==
    /\ [](0 <= tokens /\ tokens <= params.max_burst_bytes)
    /\ [][/\ SendStep /\ params.target_rate_bps > 0 /\ pace_op'.size > tokens
               => tokens' = 0
          /\ BucketStep /\ params.target_rate_bps = 0
               => UNCHANGED <<tokens, last_update_ns>>]_vars

\* update_after_send for a packet of 1500 bytes has run on a rate-limited
\* bucket of 1000 bytes, which held fewer tokens than that, and left it empty
C32_Witness ==
    /\ pace_op.op = "update_after_send"
    /\ pace_op.size = 1500
    /\ params.target_rate_bps > 0
    /\ params.max_burst_bytes = 1000
    /\ tokens = 0

(***************************************************************************)
(* The forwarding loop and the packet pool.                                *)
(***************************************************************************)
\* the thread function ForwardingLoop has returned
LoopExited == fwd_pc = "done"

\* C33: whenever the forwarding loop has exited, by whichever path (stop
\* requested, hard TUN read error, or pre-allocation failure), every buffer
\* it had taken from the pool has been freed: no buffer of the pool is in use.
C33_BuffersReturned == LoopExited => InUse = {}

\* C34: an AllocatePacket() that returns null to the forwarding loop never
\* terminates the loop: the loop keeps running.
C34_ExhaustionIsBackpressure ==
    pool_op.op = "alloc" /\ pool_op.ret = Null => ~LoopExited

\* bool IsRunning() const { return running_.load(); }
\* (quiche_tun_forwarder.h:125)
IsRunning == running

\* a Start() called now would pass its running_ test and launch a loop
StartLaunches == ~running /\ stop_pc \in {"idle", "returned"}

\* C36: whenever the forwarding loop has terminated, also when it ended by
\* itself on a hard TUN read error or a pre-allocation failure, IsRunning()
\* returns false; and Start() launches a loop only when no loop of the
\* forwarder is alive, so at most one loop exists.
C36_RunningTracksLoop ==
    /\ LoopExited => ~IsRunning
    /\ StartLaunches => fwd_pc \in {"none", "done"}

(***************************************************************************)
(* Cooperative cancellation.                                               *)
(***************************************************************************)
\* Stop() has stored running_ = false and waits in the join
StopRequested == stop_pc = "join"

\* C35: once Stop() has stored running = false the loop makes at most one
\* further batch receive (the iteration it had entered before the store) and
\* then exits; when every thread gets to run, the loop terminates and Stop()
\* returns.
C35_CancellationTerminates ==
    /\ [](fwd.late <= 1)
    /\ StopRequested ~> (LoopExited /\ Stopped)

\* the loop had passed its test of running_ when Stop() cleared the flag, has
\* received and processed one more batch and has exited; Stop() has returned
C35_Witness ==
    /\ Stopped
    /\ LoopExited
    /\ fwd.late = 1
    /\ fwd.received = "packets"
    /\ Len(submitted) > 0

(***************************************************************************)
(* The statistics of the forwarder.                                        *)
(***************************************************************************)
\* a step in which UpdateStats() sets the rates
StatsUpdate == fwd_pc = "stats" /\ last_stats_update_us' /= last_stats_update_us

\* the rate the bytes sent since the previous update make over the time since
\* the previous update
DeltaTxRate == RateBps(stats.bytes_sent - stats_base, now_us - last_stats_update_us)

\* the receive branch of an iteration has ended
BatchCounted == fwd_pc = "stats" /\ fwd.received = "packets"

\* C37: every statistics update sets tx_rate from the bytes sent since the
\* previous update over the time since the previous update, not from the
\* total; and bytes_received has grown by the length of every packet of a
\* batch once the batch is counted.
C37_RatesUseDeltas ==
    /\ [][StatsUpdate => stats'.tx_rate_bps = DeltaTxRate]_vars
    /\ [](BatchCounted => stats.bytes_received >= SumSeq(fwd.batch))

\* the counters of stats_ that accumulate
Counters == {"packets_received", "packets_sent", "packets_dropped", "bytes_sent"}

\* the loop is at the end of an iteration or between two iterations
IterationEnded == fwd_pc \in {"stats", "check"}

\* C38: packets_received, packets_sent, packets_dropped and bytes_sent never
\* decrease, and at the end of every iteration of the forwarding loop
\* packets_received = packets_sent + packets_dropped.
C38_CounterConservation ==
    /\ [][\A c \in Counters : stats'[c] >= stats[c]]_vars
    /\ [](IterationEnded =>
            stats.packets_received = stats.packets_sent + stats.packets_dropped)

\* an iteration has ended in which one packet was sent and one was dropped
C38_Witness ==
    /\ fwd_pc = "stats"
    /\ fwd.received = "packets"
    /\ stats.packets_sent = 1
    /\ stats.packets_dropped = 1
    /\ stats.packets_received = 2
    /\ stats.bytes_sent > 0

(***************************************************************************)
(* Send versus Disconnect.                                                 *)
(***************************************************************************)
\* C39: while the forwarding thread is inside SendViaQuic / Send and a
\* control thread calls Disconnect(), no quiche call of the Send is passed a
\* handle that Disconnect has freed (or the null that replaces it), and a
\* Send that returns has either completed or returned -1: it has not
\* crashed.
C39_SendVersusDisconnect ==
    /\ quic.bad_use = "none"
    /\ quic.send_pc[2] = "returned" => quic.send_ret \in {"ok", "fail"}

==========================================================================
